---------------------------- MODULE Spec2Model ----------------------------
(***************************************************************************)
(* State-machine model of colossumo: the coordinator's node lease          *)
(* registry (colosseumo.py), the per-vehicle RPC bridge (application.py),  *)
(* the API interpreter (api_interpreter.py) and the CACC link monitor      *)
(* (cacc_application.py).  Each subsystem has its own specification; the   *)
(* variables of the other subsystems stay at their initial values.         *)
(***************************************************************************)
EXTENDS Integers, Sequences, FiniteSets, TLC

(***************************************************************************)
(* Bounds of the model.                                                    *)
(***************************************************************************)
\* number of distinct SUMO vehicle ids the simulation can show
MaxEntities == 3
\* size of the node inventory (the --nodes argument, list(range(nodes)))
NumNodes == 2
\* number of call_plexe_api invocations of one vehicle application, each by
\* a thread of its own (beaconing, loss monitors, receive threads)
MaxCallers == 2
\* the beacon_interval parameter, in ticks (a tick is a quarter of a time
\* unit)
BeaconTicks == 1
\* largest sequence number a received peer-data envelope carries
MaxSeq == 5
\* number of loss_monitor threads of one application that can exist together
MaxMonitors == 3
\* number of distinct values a field of an encoded message takes
MaxValue == 2
\* number of receive threads on_message has started (one per envelope)
MaxTasks == 2
\* number of threads that call the node lease registry at the same time
MaxRegThreads == 2

VARIABLES
    \* ---- node lease registry (Colosseumo) ----
    available_nodes,     \* self.available_nodes: set of free node ids
    vehicle_to_node,     \* self.vehicle_to_node: Bidict vehicle id -> node id
    lastOp,              \* the last registry call: [op, arg, ret]
    \* ---- RPC bridge (Application) ----
    transaction_id,          \* self.transaction_id: next id to allocate
    api_semaphores,          \* self.api_semaphores: id -> semaphore value
    api_call_return_value,   \* self.api_call_return_value: id -> response
    run,                     \* self.run
    alive,                   \* FALSE once the process has called _exit(1)
    caller,                  \* per calling thread: [pc, tid, timer, ret]
    mqtt,                    \* the MQTT delivery thread: [pc, msg]
    published,               \* id -> number of call envelopes published
    accepted,                \* id -> number of responses stored and signalled
    sinceStop,               \* ticks elapsed since self.run was cleared
    blockedAtStop,           \* threads that were blocked when run was cleared
    \* ---- API interpreter (Colosseumo.on_message, APIInterpreter) ----
    coord_thread,            \* the coordinator's MQTT delivery thread
    sim_controller,          \* active controller of each vehicle in the simulator
    lastServe,               \* the last call handled and what came of it
    \* ---- CACC link monitor (CACCApplication) ----
    position,                \* self.position: index in the platoon formation
    using_cacc,              \* self.using_cacc
    run_loss_monitors,       \* self.run_loss_monitors
    last_received_time,      \* vehicle -> ticks since its last packet
    last_received_seqn,      \* self.last_received_seqn
    consecutive_packets,     \* self.consecutive_packets
    monitors,                \* the loss_monitor threads, counted by position
    receiver,                \* the thread that runs receive(): its position
    uptime,                  \* ticks since the application was started
    \* ---- simulation loop (Colosseumo.run_simulation) ----
    sumo_vehicles,           \* self.sumo_vehicles
    new_vehicles,            \* new vehicles of the step still to process
    old_vehicles,            \* old vehicles of the step still to process
    update_msg,              \* update_msg.messages of the step, as a set
    subscriptions,           \* vehicles in the step's subscription results
    traci_subscribed,        \* vehicles subscribed to in the simulator
    applications,            \* keys of self.applications
    waiting_for_colosseum,   \* self.waiting_for_colosseum
    stop_simulation,         \* self.stop_simulation
    test_mode,               \* self.test_mode
    sim_pc,                  \* where run_simulation is
    \* ---- beaconing (CACCApplication.beaconing_thread) ----
    beacon_pc,               \* where the beaconing thread is
    beacon_id,               \* self.beacon_id
    \* ---- message codec (messages.py) ----
    codec_sent,              \* the message object that was encoded
    codec_json,              \* the JSON text: [type, content as key/value pairs]
    codec_recv,              \* the object that decoded codec_json, if any did
    codec_ret,               \* what from_json returned or raised for codec_json
    \* ---- receive threads of the test mode (Application.on_message) ----
    recv_task,               \* thread -> [pc, source]: where it is in receive
    \* ---- concurrent callers of the node lease registry ----
    reg_task,                \* thread -> [pc, vehicle, node]: where it is
    \* ---- the controller switches of a vehicle, as the simulator gets them
    commanded,               \* controller of the last PAR_ACTIVE_CONTROLLER call
    since_switch             \* vehicle -> packets processed since the last
                             \* switch to ACC (history)

leaseVars == <<available_nodes, vehicle_to_node, lastOp>>

rpcVars == <<transaction_id, api_semaphores, api_call_return_value, run, alive,
             caller, mqtt, published, accepted, sinceStop, blockedAtStop>>

interpVars == <<coord_thread, sim_controller, lastServe>>

caccVars == <<position, using_cacc, run_loss_monitors, last_received_time,
              last_received_seqn, consecutive_packets, monitors, receiver,
              uptime>>

simVars == <<sumo_vehicles, new_vehicles, old_vehicles, update_msg,
             subscriptions, traci_subscribed, applications,
             waiting_for_colosseum, stop_simulation, test_mode, sim_pc>>

beaconVars == <<beacon_pc, beacon_id>>

codecVars == <<codec_sent, codec_json, codec_recv, codec_ret>>

recvVars == <<recv_task>>

regVars == <<reg_task>>

ctrlVars == <<commanded, since_switch>>

vars == <<leaseVars, rpcVars, interpVars, caccVars, simVars, beaconVars,
          codecVars, recvVars, regVars, ctrlVars>>

\* the variables an action of one subsystem leaves alone
notLease == <<rpcVars, interpVars, caccVars, simVars, beaconVars, codecVars,
              recvVars, regVars, ctrlVars>>
notRPC == <<leaseVars, interpVars, caccVars, simVars, beaconVars, codecVars,
            recvVars, regVars, ctrlVars>>
notInterp == <<leaseVars, rpcVars, caccVars, simVars, beaconVars, codecVars,
               recvVars, regVars, ctrlVars>>
notCodec == <<leaseVars, rpcVars, interpVars, caccVars, simVars, beaconVars,
              recvVars, regVars, ctrlVars>>
\* the simulation loop works on the lease registry as well
notSim == <<rpcVars, interpVars, caccVars, beaconVars, codecVars, recvVars,
            regVars, ctrlVars>>
\* the link monitor reads run and ends the process (alive); the rest of the
\* RPC bridge it leaves alone
notCacc == <<leaseVars, interpVars, simVars, beaconVars, codecVars,
             recvVars, regVars, transaction_id,
             api_semaphores, api_call_return_value, run, caller, mqtt,
             published, accepted, sinceStop, blockedAtStop>>
\* so does the beaconing thread
notBeacon == <<leaseVars, interpVars, simVars, caccVars, codecVars,
               recvVars, regVars, ctrlVars, transaction_id,
               api_semaphores, api_call_return_value, run, caller, mqtt,
               published, accepted, sinceStop, blockedAtStop>>
\* a caller of the registry works on the registry only
notReg == <<rpcVars, interpVars, caccVars, simVars, beaconVars, codecVars,
            recvVars, ctrlVars>>
\* a receive thread works on the link statistics and ends the process
notRecv == <<leaseVars, interpVars, simVars, beaconVars, codecVars,
             regVars, transaction_id,
             api_semaphores, api_call_return_value, run, caller, mqtt,
             published, accepted, sinceStop, blockedAtStop>>

(***************************************************************************)
(* Node lease registry: colosseumo.py                                      *)
(***************************************************************************)
Entities == 1..MaxEntities
Nodes == 0..(NumNodes - 1)
\* the -1 sentinel returned by assign/release/get_colosseum_node
NOT_LEASED == 0 - 1
\* the "" returned by get_sumo_vehicle, as a vehicle id outside Entities
NO_VEHICLE == 0

\* Bidict (bidict.py): a dict from vehicle id to node id with keys(),
\* item assignment, item read and inverse().
BidictEmpty == <<>>

BidictKeys(b) == DOMAIN b

BidictSetItem(b, k, v) ==
    [x \in (DOMAIN b) \cup {k} |-> IF x = k THEN v ELSE b[x]]

BidictValues(b) == {b[k] : k \in DOMAIN b}

BidictInverse(b) ==
    [n \in BidictValues(b) |-> CHOOSE k \in DOMAIN b : b[k] = n]

\* Colosseumo.__init__: every node free, no lease
LeaseInit ==
    /\ available_nodes = Nodes
    /\ vehicle_to_node = BidictEmpty
    /\ lastOp = [op |-> "none", arg |-> 0, ret |-> 0]

\* Colosseumo.get_colosseum_node
get_colosseum_node(sumo_vehicle_id) ==
    IF sumo_vehicle_id \notin BidictKeys(vehicle_to_node)
    THEN NOT_LEASED
    ELSE vehicle_to_node[sumo_vehicle_id]

\* Colosseumo.get_sumo_vehicle
get_sumo_vehicle(colosseum_node_id) ==
    LET inv_map == BidictInverse(vehicle_to_node)
    IN  IF colosseum_node_id \notin DOMAIN inv_map
        THEN NO_VEHICLE
        ELSE inv_map[colosseum_node_id]

\* assign_free_colosseum_node binding the node without taking it out of
\* the free set (mutant)
AssignNode_KeepsFree(sumo_vehicle) ==
    IF Cardinality(available_nodes) = 0
    THEN /\ lastOp' = [op |-> "assign", arg |-> sumo_vehicle,
                       ret |-> NOT_LEASED]
         /\ UNCHANGED <<available_nodes, vehicle_to_node>>
    ELSE \E colosseum_node \in available_nodes :
            /\ available_nodes' = available_nodes
            /\ vehicle_to_node' =
                   BidictSetItem(vehicle_to_node, sumo_vehicle, colosseum_node)
            /\ lastOp' = [op |-> "assign", arg |-> sumo_vehicle,
                          ret |-> colosseum_node]

\* Colosseumo.assign_free_colosseum_node: what it does to the registry
\* (set.pop takes an arbitrary node)
AssignNode(sumo_vehicle) ==
    IF Cardinality(available_nodes) = 0
    THEN /\ lastOp' = [op |-> "assign", arg |-> sumo_vehicle,
                       ret |-> NOT_LEASED]
         /\ UNCHANGED <<available_nodes, vehicle_to_node>>
    ELSE \E colosseum_node \in available_nodes :
            /\ available_nodes' = available_nodes \ {colosseum_node}
            /\ vehicle_to_node' =
                   BidictSetItem(vehicle_to_node, sumo_vehicle, colosseum_node)
            /\ lastOp' = [op |-> "assign", arg |-> sumo_vehicle,
                          ret |-> colosseum_node]

\* Colosseumo.assign_free_colosseum_node
assign_free_colosseum_node(sumo_vehicle) ==
    /\ AssignNode(sumo_vehicle)
    /\ UNCHANGED notLease

\* release_colosseum_node dropping the binding without putting the node
\* back into the free set (mutant)
ReleaseNode_LosesNode(sumo_vehicle) ==
    IF sumo_vehicle \notin BidictKeys(vehicle_to_node)
    THEN /\ lastOp' = [op |-> "release", arg |-> sumo_vehicle,
                       ret |-> NOT_LEASED]
         /\ UNCHANGED <<available_nodes, vehicle_to_node>>
    ELSE /\ vehicle_to_node' =
                [x \in BidictKeys(vehicle_to_node) \ {sumo_vehicle} |->
                    vehicle_to_node[x]]
         /\ lastOp' = [op |-> "release", arg |-> sumo_vehicle,
                       ret |-> vehicle_to_node[sumo_vehicle]]
         /\ UNCHANGED available_nodes

\* Colosseumo.release_colosseum_node: what it does to the registry.  The
\* node goes back to the free set; the code does not delete the vehicle's
\* entry of vehicle_to_node
ReleaseNode(sumo_vehicle) ==
    IF sumo_vehicle \notin BidictKeys(vehicle_to_node)
    THEN /\ lastOp' = [op |-> "release", arg |-> sumo_vehicle,
                       ret |-> NOT_LEASED]
         /\ UNCHANGED <<available_nodes, vehicle_to_node>>
    ELSE LET colosseum_node == vehicle_to_node[sumo_vehicle]
         IN  /\ available_nodes' = available_nodes \cup {colosseum_node}
             /\ lastOp' = [op |-> "release", arg |-> sumo_vehicle,
                           ret |-> colosseum_node]
             /\ UNCHANGED vehicle_to_node

\* Colosseumo.release_colosseum_node
release_colosseum_node(sumo_vehicle) ==
    /\ ReleaseNode(sumo_vehicle)
    /\ UNCHANGED notLease

\* a lookup of the node of a vehicle, its result recorded
LookupNode(sumo_vehicle) ==
    /\ lastOp' = [op |-> "nodeOf", arg |-> sumo_vehicle,
                  ret |-> get_colosseum_node(sumo_vehicle)]
    /\ UNCHANGED <<available_nodes, vehicle_to_node>>
    /\ UNCHANGED notLease

\* a lookup of the vehicle of a node, its result recorded
LookupVehicle(colosseum_node) ==
    /\ lastOp' = [op |-> "entityOf", arg |-> colosseum_node,
                  ret |-> get_sumo_vehicle(colosseum_node)]
    /\ UNCHANGED <<available_nodes, vehicle_to_node>>
    /\ UNCHANGED notLease

LeaseNext ==
    \/ \E e \in Entities : assign_free_colosseum_node(e)
    \/ \E e \in Entities : release_colosseum_node(e)
    \/ \E e \in Entities : LookupNode(e)
    \/ \E n \in Nodes : LookupVehicle(n)

(***************************************************************************)
(* The registry called from several threads at once.  No method of         *)
(* Colosseumo takes a lock (colosseumo.py 147-174), so a thread can be     *)
(* preempted between any two statements of assign_free_colosseum_node and  *)
(* of release_colosseum_node.  The two lookups never find an entry gone    *)
(* between their test and their read (no entry is ever deleted), so each   *)
(* is one step.                                                            *)
(***************************************************************************)
RegThreads == 1..MaxRegThreads

RegIdle == [pc |-> "idle", vehicle |-> NO_VEHICLE, node |-> NOT_LEASED]

RegStart == reg_task = [t \in RegThreads |-> RegIdle]

\* assign_free_colosseum_node line 148: the test of the free set; with no
\* free node the call returns -1 (line 149)
RegAssignTest(t, sumo_vehicle) ==
    /\ reg_task[t].pc = "idle"
    /\ reg_task' =
          IF Cardinality(available_nodes) = 0 THEN reg_task
          ELSE [reg_task EXCEPT ![t] = [pc |-> "line151",
                                        vehicle |-> sumo_vehicle,
                                        node |-> NOT_LEASED]]
    /\ lastOp' = IF Cardinality(available_nodes) = 0
                 THEN [op |-> "assign", arg |-> sumo_vehicle,
                       ret |-> NOT_LEASED]
                 ELSE lastOp
    /\ UNCHANGED <<available_nodes, vehicle_to_node>>
    /\ UNCHANGED notReg

\* assign_free_colosseum_node line 151: set.pop(), which raises KeyError
\* on an empty set
RegAssignPop(t) ==
    /\ reg_task[t].pc = "line151"
    /\ IF available_nodes = {}
       THEN /\ reg_task' = [reg_task EXCEPT ![t].pc = "raised"]
            /\ UNCHANGED available_nodes
       ELSE \E colosseum_node \in available_nodes :
               /\ available_nodes' = available_nodes \ {colosseum_node}
               /\ reg_task' = [reg_task EXCEPT ![t].pc = "line152",
                                               ![t].node = colosseum_node]
    /\ UNCHANGED <<vehicle_to_node, lastOp>>
    /\ UNCHANGED notReg

\* assign_free_colosseum_node lines 152-153
RegAssignBind(t) ==
    /\ reg_task[t].pc = "line152"
    /\ vehicle_to_node' = BidictSetItem(vehicle_to_node, reg_task[t].vehicle,
                                        reg_task[t].node)
    /\ lastOp' = [op |-> "assign", arg |-> reg_task[t].vehicle,
                  ret |-> reg_task[t].node]
    /\ reg_task' = [reg_task EXCEPT ![t] = RegIdle]
    /\ UNCHANGED available_nodes
    /\ UNCHANGED notReg

\* release_colosseum_node lines 156-159: the test of the lease and the
\* read of the node (the entry cannot go away in between)
RegReleaseRead(t, sumo_vehicle) ==
    /\ reg_task[t].pc = "idle"
    /\ reg_task' =
          IF sumo_vehicle \notin BidictKeys(vehicle_to_node) THEN reg_task
          ELSE [reg_task EXCEPT ![t] = [pc |-> "line160",
                                        vehicle |-> sumo_vehicle,
                                        node |-> vehicle_to_node[sumo_vehicle]]]
    /\ lastOp' = IF sumo_vehicle \notin BidictKeys(vehicle_to_node)
                 THEN [op |-> "release", arg |-> sumo_vehicle,
                       ret |-> NOT_LEASED]
                 ELSE lastOp
    /\ UNCHANGED <<available_nodes, vehicle_to_node>>
    /\ UNCHANGED notReg

\* release_colosseum_node lines 160-161
RegReleaseAdd(t) ==
    /\ reg_task[t].pc = "line160"
    /\ available_nodes' = available_nodes \cup {reg_task[t].node}
    /\ lastOp' = [op |-> "release", arg |-> reg_task[t].vehicle,
                  ret |-> reg_task[t].node]
    /\ reg_task' = [reg_task EXCEPT ![t] = RegIdle]
    /\ UNCHANGED vehicle_to_node
    /\ UNCHANGED notReg

\* get_colosseum_node called by a thread
RegLookupNode(t, sumo_vehicle) ==
    /\ reg_task[t].pc = "idle"
    /\ lastOp' = [op |-> "nodeOf", arg |-> sumo_vehicle,
                  ret |-> get_colosseum_node(sumo_vehicle)]
    /\ UNCHANGED <<available_nodes, vehicle_to_node, reg_task>>
    /\ UNCHANGED notReg

\* get_sumo_vehicle called by a thread
RegLookupVehicle(t, colosseum_node) ==
    /\ reg_task[t].pc = "idle"
    /\ lastOp' = [op |-> "entityOf", arg |-> colosseum_node,
                  ret |-> get_sumo_vehicle(colosseum_node)]
    /\ UNCHANGED <<available_nodes, vehicle_to_node, reg_task>>
    /\ UNCHANGED notReg

RegNext ==
    \/ \E t \in RegThreads, e \in Entities : RegAssignTest(t, e)
    \/ \E t \in RegThreads : RegAssignPop(t)
    \/ \E t \in RegThreads : RegAssignBind(t)
    \/ \E t \in RegThreads, e \in Entities : RegReleaseRead(t, e)
    \/ \E t \in RegThreads : RegReleaseAdd(t)
    \/ \E t \in RegThreads, e \in Entities : RegLookupNode(t, e)
    \/ \E t \in RegThreads, n \in Nodes : RegLookupVehicle(t, n)


(***************************************************************************)
(* Claims about the node lease registry, checked under SpecLease.          *)
(***************************************************************************)
\* every leased node is the node of exactly one vehicle
LeaseUnique(b) ==
    \A e1, e2 \in BidictKeys(b) : e1 # e2 => b[e1] # b[e2]

\* C3: lease uniqueness.  After every assign or release each node is bound
\* to at most one entity (and, the map being a function, each entity to at
\* most one node), and a node that assign returns was bound to no other
\* entity when assign was called.
C3_LeaseUniqueness ==
    [][/\ LeaseUnique(vehicle_to_node')
       /\ \A e \in Entities :
             (lastOp'.op = "assign" /\ lastOp'.arg = e
                  /\ lastOp'.ret # NOT_LEASED)
             => \A other \in BidictKeys(vehicle_to_node) \ {e} :
                    vehicle_to_node[other] # lastOp'.ret]_vars

\* C4: the free-node set and the nodes of the lease map are disjoint in
\* every reachable state.
C4_FreeAndLeasedDisjoint ==
    available_nodes \cap BidictValues(vehicle_to_node) = {}

\* C5: release(entity) returns NOT_LEASED and changes nothing when the
\* entity holds no lease; otherwise it returns the entity's node, puts it
\* back into the free set and removes the binding, so that right after it
\* get_colosseum_node(entity) is NOT_LEASED and get_sumo_vehicle(node)
\* reports no vehicle.
C5_ReleaseEffect ==
    [][\A e \in Entities :
          (lastOp'.op = "release" /\ lastOp'.arg = e)
          => IF e \notin BidictKeys(vehicle_to_node)
             THEN /\ lastOp'.ret = NOT_LEASED
                  /\ UNCHANGED <<available_nodes, vehicle_to_node>>
             ELSE /\ lastOp'.ret = vehicle_to_node[e]
                  /\ lastOp'.ret \in available_nodes'
                  /\ e \notin BidictKeys(vehicle_to_node')
                  /\ get_colosseum_node(e)' = NOT_LEASED
                  /\ \A n \in Nodes :
                        n = lastOp'.ret => get_sumo_vehicle(n)' = NO_VEHICLE]_vars

\* C17: assign(entity) returns -1 and leaves the free set and the lease
\* map as they are when no node is free; otherwise it returns a node of the
\* free set, takes exactly that node out of the free set and binds exactly
\* that node to the entity, the other bindings unchanged.
C17_AssignEffect ==
    [][\A e \in Entities :
          (lastOp'.op = "assign" /\ lastOp'.arg = e)
          => IF available_nodes = {}
             THEN /\ lastOp'.ret = NOT_LEASED
                  /\ UNCHANGED <<available_nodes, vehicle_to_node>>
             ELSE /\ lastOp'.ret \in available_nodes
                  /\ available_nodes' = available_nodes \ {lastOp'.ret}
                  /\ BidictKeys(vehicle_to_node') =
                         BidictKeys(vehicle_to_node) \cup {e}
                  /\ vehicle_to_node'[e] = lastOp'.ret
                  /\ \A x \in BidictKeys(vehicle_to_node) \ {e} :
                        vehicle_to_node'[x] = vehicle_to_node[x]]_vars

\* C17 witness: an assign has returned -1 with every node leased, after
\* earlier assigns had each taken a node.
C17_Witness ==
    /\ lastOp.op = "assign"
    /\ lastOp.ret = NOT_LEASED
    /\ available_nodes = {}
    /\ BidictValues(vehicle_to_node) = Nodes
    /\ lastOp.arg \notin BidictKeys(vehicle_to_node)

(***************************************************************************)
(* RPC bridge: application.py, Application.call_plexe_api and              *)
(* Application.__plexe_api_return                                          *)
(***************************************************************************)
Callers == 1..MaxCallers
\* the transaction ids the invocations take
TransactionIds == 0..(MaxCallers - 1)
\* timeout=1 of Semaphore.acquire; the clock of this model ticks once per
\* time unit
PollTicks == 1
\* sumo ids a response envelope can carry: this vehicle's and another one
SumoIds == {"self", "other"}
\* msg.response: an opaque content; the model tells the contents apart by
\* the transaction id of the envelope that carries them
Response(t) == [tid |-> t]
\* Python's None as a return value of call_plexe_api
NoneValue == [tid |-> 0 - 1]
\* the api_return envelopes the bus can deliver on apiresponse/{sumo_id}:
\* any id and content for this vehicle, and one envelope of another vehicle
ResponseEnvelopes ==
    {[sumo_id |-> "self", transaction_id |-> t, response |-> Response(t)] :
        t \in TransactionIds}
    \cup {[sumo_id |-> "other", transaction_id |-> 0,
           response |-> Response(0)]}
NoMsg == [sumo_id |-> "none", transaction_id |-> 0 - 1, response |-> NoneValue]
IdleCaller == [pc |-> "idle", tid |-> 0 - 1, timer |-> 0, ret |-> NoneValue]

\* dict item removal (del d[k])
DictDel(d, k) == [x \in (DOMAIN d) \ {k} |-> d[x]]

\* dict item assignment (d[k] = v)
DictSet(d, k, v) == [x \in (DOMAIN d) \cup {k} |-> IF x = k THEN v ELSE d[x]]

\* Application.__init__: no transaction, running
RPCInit ==
    /\ transaction_id = 0
    /\ api_semaphores = <<>>
    /\ api_call_return_value = <<>>
    /\ run = TRUE
    /\ alive = TRUE
    /\ caller = [c \in Callers |-> IdleCaller]
    /\ mqtt = [pc |-> "idle", msg |-> NoMsg]
    /\ published = [t \in TransactionIds |-> 0]
    /\ accepted = [t \in TransactionIds |-> 0]
    /\ sinceStop = 0
    /\ blockedAtStop = {}

\* call_plexe_api lines 208-211 without mutex_transaction: the invocation
\* takes the id that the invocation before it read (mutant)
CallAllocate_Unlocked(c) ==
    /\ alive
    /\ caller[c].pc = "idle"
    /\ \A d \in Callers : d < c => caller[d].pc # "idle"
    /\ caller' = [caller EXCEPT ![c] =
                     [pc |-> "allocated",
                      tid |-> IF transaction_id > 0 THEN transaction_id - 1
                              ELSE 0,
                      timer |-> 0, ret |-> NoneValue]]
    /\ transaction_id' = transaction_id + 1
    /\ UNCHANGED <<api_semaphores, api_call_return_value, run, alive, mqtt,
                   published, accepted, sinceStop, blockedAtStop>>
    /\ UNCHANGED notRPC

\* call_plexe_api, lines 208-211: take the next transaction id under
\* mutex_transaction.  The invocations are numbered in the order in which
\* they take their id.
CallAllocate(c) ==
    /\ alive
    /\ caller[c].pc = "idle"
    /\ \A d \in Callers : d < c => caller[d].pc # "idle"
    /\ caller' = [caller EXCEPT ![c] =
                     [pc |-> "allocated", tid |-> transaction_id,
                      timer |-> 0, ret |-> NoneValue]]
    /\ transaction_id' = transaction_id + 1
    /\ UNCHANGED <<api_semaphores, api_call_return_value, run, alive, mqtt,
                   published, accepted, sinceStop, blockedAtStop>>
    /\ UNCHANGED notRPC

\* call_plexe_api publishing the call envelope before it registers the
\* semaphore (mutant)
CallRegister_PublishesFirst(c) ==
    /\ alive
    /\ caller[c].pc = "allocated"
    /\ published' = [published EXCEPT ![caller[c].tid] = @ + 1]
    /\ api_semaphores' = DictSet(api_semaphores, caller[c].tid, 0)
    /\ caller' = [caller EXCEPT ![c].pc = "registered"]
    /\ UNCHANGED <<transaction_id, api_call_return_value, run, alive, mqtt,
                   accepted, sinceStop, blockedAtStop>>
    /\ UNCHANGED notRPC

\* call_plexe_api, lines 213-214: register Semaphore(0) for the id
CallRegister(c) ==
    /\ alive
    /\ caller[c].pc = "allocated"
    /\ api_semaphores' = DictSet(api_semaphores, caller[c].tid, 0)
    /\ caller' = [caller EXCEPT ![c].pc = "registered"]
    /\ UNCHANGED <<transaction_id, api_call_return_value, run, alive, mqtt,
                   published, accepted, sinceStop, blockedAtStop>>
    /\ UNCHANGED notRPC

\* call_plexe_api, lines 215-218: publish the call envelope, then enter
\* the wait loop of line 221
CallPublish(c) ==
    /\ alive
    /\ caller[c].pc = "registered"
    /\ published' = [published EXCEPT ![caller[c].tid] = @ + 1]
    /\ caller' = [caller EXCEPT ![c].pc = "wait", ![c].timer = 0]
    /\ UNCHANGED <<transaction_id, api_semaphores, api_call_return_value, run,
                   alive, mqtt, accepted, sinceStop, blockedAtStop>>
    /\ UNCHANGED notRPC

\* call_plexe_api, line 221: acquire succeeds on a signalled semaphore
AcquireOk(c) ==
    /\ alive
    /\ caller[c].pc = "wait"
    /\ api_semaphores[caller[c].tid] > 0
    /\ api_semaphores' = [api_semaphores EXCEPT ![caller[c].tid] = @ - 1]
    /\ caller' = [caller EXCEPT ![c].pc = "signalled"]
    /\ UNCHANGED <<transaction_id, api_call_return_value, run, alive, mqtt,
                   published, accepted, sinceStop, blockedAtStop>>
    /\ UNCHANGED notRPC

\* AcquireTimeout with the check of self.run left out: the wait loop only
\* ends on a signal
AcquireTimeout_IgnoresRun(c) ==
    /\ alive
    /\ caller[c].pc = "wait"
    /\ caller[c].timer = PollTicks
    /\ api_semaphores[caller[c].tid] = 0
    /\ caller' = [caller EXCEPT ![c].timer = 0]
    /\ UNCHANGED <<transaction_id, api_semaphores, api_call_return_value, run,
                   alive, mqtt, published, accepted, sinceStop, blockedAtStop>>
    /\ UNCHANGED notRPC

\* AcquireTimeout with a timeout per call: the call returns None at the
\* first timeout, whatever self.run (mutant)
AcquireTimeout_GivesUp(c) ==
    /\ alive
    /\ caller[c].pc = "wait"
    /\ caller[c].timer = PollTicks
    /\ api_semaphores[caller[c].tid] = 0
    /\ caller' = [caller EXCEPT ![c].pc = "returned",
                                ![c].ret = NoneValue, ![c].timer = 0]
    /\ UNCHANGED <<transaction_id, api_semaphores, api_call_return_value, run,
                   alive, mqtt, published, accepted, sinceStop, blockedAtStop>>
    /\ UNCHANGED notRPC

\* call_plexe_api, lines 221-224: acquire times out after PollTimeout; the
\* call returns None if run is cleared and waits again otherwise
AcquireTimeout(c) ==
    /\ alive
    /\ caller[c].pc = "wait"
    /\ caller[c].timer = PollTicks
    /\ api_semaphores[caller[c].tid] = 0
    /\ IF ~run
       THEN caller' = [caller EXCEPT ![c].pc = "returned",
                                     ![c].ret = NoneValue, ![c].timer = 0]
       ELSE caller' = [caller EXCEPT ![c].timer = 0]
    /\ UNCHANGED <<transaction_id, api_semaphores, api_call_return_value, run,
                   alive, mqtt, published, accepted, sinceStop, blockedAtStop>>
    /\ UNCHANGED notRPC

\* call_plexe_api line 226 reading the entry of the lowest transaction id
\* in the place of its own (mutant)
CallRead_LowestId(c) ==
    /\ alive
    /\ caller[c].pc = "signalled"
    /\ IF caller[c].tid \in DOMAIN api_call_return_value
       THEN LET t == CHOOSE x \in DOMAIN api_call_return_value :
                        \A y \in DOMAIN api_call_return_value : x <= y
            IN caller' = [caller EXCEPT ![c].pc = "read",
                             ![c].ret = api_call_return_value[t]]
       ELSE caller' = [caller EXCEPT ![c].pc = "raised"]
    /\ UNCHANGED <<transaction_id, api_semaphores, api_call_return_value, run,
                   alive, mqtt, published, accepted, sinceStop, blockedAtStop>>
    /\ UNCHANGED notRPC

\* call_plexe_api, line 226: read the stored return value; a missing key
\* raises KeyError in the calling thread
CallRead(c) ==
    /\ alive
    /\ caller[c].pc = "signalled"
    /\ IF caller[c].tid \in DOMAIN api_call_return_value
       THEN caller' = [caller EXCEPT ![c].pc = "read",
                          ![c].ret = api_call_return_value[caller[c].tid]]
       ELSE caller' = [caller EXCEPT ![c].pc = "raised"]
    /\ UNCHANGED <<transaction_id, api_semaphores, api_call_return_value, run,
                   alive, mqtt, published, accepted, sinceStop, blockedAtStop>>
    /\ UNCHANGED notRPC

\* call_plexe_api, line 227: del self.api_call_return_value[transaction_id]
CallDelValue(c) ==
    /\ alive
    /\ caller[c].pc = "read"
    /\ IF caller[c].tid \in DOMAIN api_call_return_value
       THEN /\ api_call_return_value' =
                   DictDel(api_call_return_value, caller[c].tid)
            /\ caller' = [caller EXCEPT ![c].pc = "valueDeleted"]
       ELSE /\ caller' = [caller EXCEPT ![c].pc = "raised"]
            /\ UNCHANGED api_call_return_value
    /\ UNCHANGED <<transaction_id, api_semaphores, run, alive, mqtt,
                   published, accepted, sinceStop, blockedAtStop>>
    /\ UNCHANGED notRPC

\* call_plexe_api, lines 228-229: del self.api_semaphores[transaction_id]
\* and return the value
CallDelSemaphore(c) ==
    /\ alive
    /\ caller[c].pc = "valueDeleted"
    /\ api_semaphores' = DictDel(api_semaphores, caller[c].tid)
    /\ caller' = [caller EXCEPT ![c].pc = "returned"]
    /\ UNCHANGED <<transaction_id, api_call_return_value, run, alive, mqtt,
                   published, accepted, sinceStop, blockedAtStop>>
    /\ UNCHANGED notRPC

\* ResponseArrives without the check of lines 236-239: a response whose
\* transaction has no semaphore is handled like any other
ResponseArrives_NoPendingCheck(msg) ==
    /\ alive
    /\ mqtt.pc = "idle"
    /\ IF msg.sumo_id # "self"
       THEN mqtt' = [pc |-> "ignored", msg |-> msg]
       ELSE mqtt' = [pc |-> "checkStored", msg |-> msg]
    /\ UNCHANGED <<transaction_id, api_semaphores, api_call_return_value, run,
                   alive, caller, published, accepted, sinceStop,
                   blockedAtStop>>
    /\ UNCHANGED notRPC

\* on_message lines 186-189 and __plexe_api_return lines 234-239: an
\* api_return envelope arrives; one of another vehicle is ignored, one whose
\* transaction has no semaphore ends the process (_exit(1))
ResponseArrives(msg) ==
    /\ alive
    /\ mqtt.pc = "idle"
    /\ IF msg.sumo_id # "self"
       THEN /\ mqtt' = [pc |-> "ignored", msg |-> msg]
            /\ UNCHANGED alive
       ELSE IF msg.transaction_id \notin DOMAIN api_semaphores
            THEN /\ mqtt' = [pc |-> "exited", msg |-> msg]
                 /\ alive' = FALSE
            ELSE /\ mqtt' = [pc |-> "checkStored", msg |-> msg]
                 /\ UNCHANGED alive
    /\ UNCHANGED <<transaction_id, api_semaphores, api_call_return_value, run,
                   caller, published, accepted, sinceStop, blockedAtStop>>
    /\ UNCHANGED notRPC

\* __plexe_api_return line 235: return, the delivery thread is idle again
ReturnIgnored ==
    /\ alive
    /\ mqtt.pc = "ignored"
    /\ mqtt' = [pc |-> "idle", msg |-> NoMsg]
    /\ UNCHANGED <<transaction_id, api_semaphores, api_call_return_value, run,
                   alive, caller, published, accepted, sinceStop,
                   blockedAtStop>>
    /\ UNCHANGED notRPC

\* __plexe_api_return lines 241-244: a return value already stored for the
\* transaction ends the process (_exit(1))
ReturnCheckStored ==
    /\ alive
    /\ mqtt.pc = "checkStored"
    /\ IF mqtt.msg.transaction_id \in DOMAIN api_call_return_value
       THEN /\ alive' = FALSE
            /\ mqtt' = [mqtt EXCEPT !.pc = "exited"]
       ELSE /\ mqtt' = [mqtt EXCEPT !.pc = "store"]
            /\ UNCHANGED alive
    /\ UNCHANGED <<transaction_id, api_semaphores, api_call_return_value, run,
                   caller, published, accepted, sinceStop, blockedAtStop>>
    /\ UNCHANGED notRPC

\* ReturnStore with one shared slot for the return value instead of one
\* entry per transaction id
ReturnStore_SharedSlot ==
    /\ alive
    /\ mqtt.pc = "store"
    /\ api_call_return_value' =
           DictSet(api_call_return_value, 0, mqtt.msg.response)
    /\ mqtt' = [mqtt EXCEPT !.pc = "signal"]
    /\ UNCHANGED <<transaction_id, api_semaphores, run, alive, caller,
                   published, accepted, sinceStop, blockedAtStop>>
    /\ UNCHANGED notRPC

\* ReturnStore releasing the semaphore in the place of storing the value
\* (mutant)
ReturnStore_SignalsFirst ==
    /\ alive
    /\ mqtt.pc = "store"
    /\ api_semaphores' =
           IF mqtt.msg.transaction_id \in DOMAIN api_semaphores
           THEN [api_semaphores EXCEPT ![mqtt.msg.transaction_id] = @ + 1]
           ELSE api_semaphores
    /\ mqtt' = [pc |-> "idle", msg |-> NoMsg]
    /\ UNCHANGED <<transaction_id, api_call_return_value, run, alive, caller,
                   published, accepted, sinceStop, blockedAtStop>>
    /\ UNCHANGED notRPC

\* __plexe_api_return line 245: store msg.response under the transaction id
ReturnStore ==
    /\ alive
    /\ mqtt.pc = "store"
    /\ api_call_return_value' =
           DictSet(api_call_return_value, mqtt.msg.transaction_id,
                   mqtt.msg.response)
    /\ mqtt' = [mqtt EXCEPT !.pc = "signal"]
    /\ UNCHANGED <<transaction_id, api_semaphores, run, alive, caller,
                   published, accepted, sinceStop, blockedAtStop>>
    /\ UNCHANGED notRPC

\* __plexe_api_return line 248: release the semaphore of the transaction; a
\* semaphore deleted meanwhile raises KeyError in the delivery thread
ReturnSignal ==
    /\ alive
    /\ mqtt.pc = "signal"
    /\ IF mqtt.msg.transaction_id \in DOMAIN api_semaphores
       THEN /\ api_semaphores' =
                   [api_semaphores EXCEPT ![mqtt.msg.transaction_id] = @ + 1]
            /\ accepted' = [accepted EXCEPT ![mqtt.msg.transaction_id] = @ + 1]
            /\ mqtt' = [pc |-> "idle", msg |-> NoMsg]
       ELSE /\ mqtt' = [mqtt EXCEPT !.pc = "raised"]
            /\ UNCHANGED <<api_semaphores, accepted>>
    /\ UNCHANGED <<transaction_id, api_call_return_value, run, alive, caller,
                   published, sinceStop, blockedAtStop>>
    /\ UNCHANGED notRPC

\* stop_application line 143: self.run = False
StopApplication ==
    /\ alive
    /\ run
    /\ run' = FALSE
    /\ sinceStop' = 0
    /\ blockedAtStop' = {c \in Callers : caller[c].pc = "wait"}
    /\ UNCHANGED <<transaction_id, api_semaphores, api_call_return_value,
                   alive, caller, mqtt, published, accepted>>
    /\ UNCHANGED notRPC

\* time advances by one tick; a timeout that is due fires first
Tick ==
    /\ alive
    /\ \A c \in Callers : caller[c].pc = "wait" => caller[c].timer < PollTicks
    /\ caller' = [c \in Callers |->
                     IF caller[c].pc = "wait"
                     THEN [caller[c] EXCEPT !.timer = @ + 1]
                     ELSE caller[c]]
    /\ sinceStop' = IF run THEN 0
                    ELSE IF sinceStop > PollTicks THEN sinceStop
                    ELSE sinceStop + 1
    /\ UNCHANGED <<transaction_id, api_semaphores, api_call_return_value, run,
                   alive, mqtt, published, accepted, blockedAtStop>>
    /\ UNCHANGED notRPC



RPCNext ==
    \/ \E c \in Callers : CallAllocate(c)
    \/ \E c \in Callers : CallRegister(c)
    \/ \E c \in Callers : CallPublish(c)
    \/ \E c \in Callers : AcquireOk(c)
    \/ \E c \in Callers : AcquireTimeout(c)
    \/ \E c \in Callers : CallRead(c)
    \/ \E c \in Callers : CallDelValue(c)
    \/ \E c \in Callers : CallDelSemaphore(c)
    \/ \E msg \in ResponseEnvelopes : ResponseArrives(msg)
    \/ ReturnIgnored
    \/ ReturnCheckStored
    \/ ReturnStore
    \/ ReturnSignal
    \/ StopApplication
    \/ Tick


(***************************************************************************)
(* API interpreter: colosseumo.py Colosseumo.on_message (API call topics)  *)
(* and api_interpreter.py APIInterpreter.serve_api_call                    *)
(***************************************************************************)
\* the vehicles whose API call topics the coordinator is subscribed to
Vehicles == {"p.0", "p.1"}
\* the api codes serve_api_call dispatches on, and one it does not know
ApiCodes == {"CC_PAR_VEHICLE_DATA", "PAR_LEADER_SPEED_AND_ACCELERATION",
             "PAR_PRECEDING_SPEED_AND_ACCELERATION", "PAR_CC_DESIRED_SPEED",
             "PAR_ACTIVE_CONTROLLER", "OTHER"}
Controllers == {"ACC", "CACC"}
\* the parameters field of a call: a controller number, a vehicle_data
\* message in JSON, or text that is neither
ApiParameters == Controllers \cup {"vehicle_data", "garbage"}
\* what Message.from_json makes of a payload: decoded, type mismatch or
\* missing key (returns False), or not parseable (json.loads raises)
Payloads == {"valid", "wrong_type", "missing_key", "not_json"}
\* how the call into plexe/traci ends
ApiOutcomes == {"ok", "FatalTraCIError", "TraCIException"}
\* the api_call envelopes; topic is the vehicle id of apicall/{id}
CallEnvelopes ==
    [topic : Vehicles, sumo_id : Vehicles, api_code : ApiCodes,
     transaction_id : 0..1, parameters : ApiParameters]
NoResponse == [topic |-> "none", sumo_id |-> "none", api_code |-> "none",
               transaction_id |-> 0 - 1, response |-> "none"]
NoCall == [topic |-> "none", sumo_id |-> "none", api_code |-> "none",
           transaction_id |-> 0 - 1, parameters |-> "none"]

\* the scenario starts the followers with the cooperative controller
InterpInit ==
    /\ coord_thread = "idle"
    /\ sim_controller = [v \in Vehicles |-> "CACC"]
    /\ lastServe = [call |-> NoCall, payload |-> "none", api |-> "not_called",
                    raised |-> "none", published |-> NoResponse]

\* serve_api_call line 50 with a response that does not take over the
\* transaction id of the call (mutant)
NewResponse_NoTransaction(call) ==
    [topic |-> call.topic, sumo_id |-> call.topic, api_code |-> call.api_code,
     transaction_id |-> 0, response |-> "None"]

\* serve_api_call line 50: APIResponseMessage(sumo_id, api_code,
\* transaction_id) with the sumo id taken from the topic
NewResponse(call) ==
    [topic |-> call.topic, sumo_id |-> call.topic, api_code |-> call.api_code,
     transaction_id |-> call.transaction_id, response |-> "None"]

\* the exception, if any, that parsing call_msg.parameters raises in the
\* branch of the api code (lines 57-58, 63-64, 69-70, 74)
ParameterError(call) ==
    IF call.api_code \in {"PAR_LEADER_SPEED_AND_ACCELERATION",
                          "PAR_PRECEDING_SPEED_AND_ACCELERATION",
                          "PAR_CC_DESIRED_SPEED"}
    THEN IF call.parameters = "vehicle_data" THEN "none"
         ELSE "JSONDecodeError"
    ELSE IF call.api_code = "PAR_ACTIVE_CONTROLLER"
         THEN IF call.parameters \in Controllers THEN "none" ELSE "ValueError"
         ELSE "none"

\* the response field a successful dispatch sets (lines 55, 61, 67, 72, 76)
ResponseField(call) ==
    IF call.api_code = "CC_PAR_VEHICLE_DATA" THEN "vehicle_data"
    ELSE IF call.api_code = "OTHER" THEN "None"
    ELSE "true"

\* Colosseumo.on_message lines 139-142 with APIInterpreter.serve_api_call:
\* one api_call message is handled.  payload is what from_json makes of
\* it, outcome how the plexe/traci call ends.  An exception that the
\* handler does not catch leaves on_message and ends the delivery thread.
ServeApiCall(call, payload, outcome) ==
    /\ coord_thread = "idle"
    /\ IF payload = "not_json"
       THEN \* json.loads raises in from_json (line 49)
            /\ coord_thread' = "raised"
            /\ lastServe' = [call |-> call, payload |-> payload, api |-> "not_called",
                             raised |-> "JSONDecodeError",
                             published |-> NoResponse]
            /\ UNCHANGED sim_controller
       ELSE IF payload # "valid"
       THEN \* from_json returns False: response is unbound at line 80
            /\ coord_thread' = "raised"
            /\ lastServe' = [call |-> call, payload |-> payload, api |-> "not_called",
                             raised |-> "UnboundLocalError",
                             published |-> NoResponse]
            /\ UNCHANGED sim_controller
       ELSE IF call.api_code = "OTHER"
       THEN \* no branch matches: the response is published as created
            /\ lastServe' = [call |-> call, payload |-> payload, api |-> "not_called",
                             raised |-> "none",
                             published |-> NewResponse(call)]
            /\ UNCHANGED <<coord_thread, sim_controller>>
       ELSE IF ParameterError(call) # "none"
       THEN \* not a FatalTraCIError: it leaves the try statement
            /\ coord_thread' = "raised"
            /\ lastServe' = [call |-> call, payload |-> payload, api |-> "not_called",
                             raised |-> ParameterError(call),
                             published |-> NoResponse]
            /\ UNCHANGED sim_controller
       ELSE IF outcome = "FatalTraCIError"
       THEN \* lines 77-79: caught, response = None, nothing is published
            /\ lastServe' = [call |-> call, payload |-> payload, api |-> outcome,
                             raised |-> "none", published |-> NoResponse]
            /\ UNCHANGED <<coord_thread, sim_controller>>
       ELSE IF outcome = "TraCIException"
       THEN \* not caught by except FatalTraCIError
            /\ coord_thread' = "raised"
            /\ lastServe' = [call |-> call, payload |-> payload, api |-> outcome,
                             raised |-> "TraCIException",
                             published |-> NoResponse]
            /\ UNCHANGED sim_controller
       ELSE /\ lastServe' =
                   [call |-> call, payload |-> payload, api |-> "ok", raised |-> "none",
                    published |-> [NewResponse(call) EXCEPT
                                      !.response = ResponseField(call)]]
            /\ sim_controller' =
                   IF call.api_code = "PAR_ACTIVE_CONTROLLER"
                   THEN [sim_controller EXCEPT ![call.topic] = call.parameters]
                   ELSE sim_controller
            /\ UNCHANGED coord_thread
    /\ UNCHANGED notInterp

InterpNext ==
    \E call \in CallEnvelopes, payload \in Payloads, outcome \in ApiOutcomes :
        ServeApiCall(call, payload, outcome)

(***************************************************************************)
(* CACC link monitor: cacc_application.py CACCApplication, running (no     *)
(* stop_application).  Time is counted in ticks of a quarter of a time     *)
(* unit.                                                                   *)
(***************************************************************************)
\* parameters["platoon_formation"]
formation == <<"p.0", "p.1", "p.2">>
Positions == 0..(Len(formation) - 1)
\* parse_parameters: formation[0] and formation[position-1], None for the
\* leader itself
is_leader == position = 0
leader == IF position = 0 THEN "None" ELSE formation[1]
preceding == IF position = 0 THEN "None" ELSE formation[position]
\* the senders a received packet can name
Sources == {formation[i] : i \in 1..Len(formation)}
Seqns == 0..MaxSeq
\* loss_monitor: silence of more than 0.5 time units, in ticks
SilenceTicks == 2
\* update_packets_stats: consecutive packets needed from each neighbour
RecoveryThreshold == 5
\* last_received_seqn holds the packet object itself after the first packet
\* of a vehicle (line 96); it compares unequal to every sequence number
PACKET == 0 - 2
\* ages above the silence threshold plus one monitor cycle are not told apart
AgeCap == SilenceTicks + BeaconTicks + 1

\* where a loss_monitor thread of a vehicle can be: asleep with timer ticks
\* to go (0: about to run the loop test), or in loss_detected, blocked in
\* its call_plexe_api
MonitorPoints ==
    [vehicle : Sources, pc : {"sleep"}, timer : 0..BeaconTicks]
    \cup [vehicle : Sources, pc : {"calling"}, timer : {0}]
Awake(vehicle) == [vehicle |-> vehicle, pc |-> "sleep", timer |-> 0]
Asleep(vehicle) == [vehicle |-> vehicle, pc |-> "sleep", timer |-> BeaconTicks]
Calling(vehicle) == [vehicle |-> vehicle, pc |-> "calling", timer |-> 0]

\* monitors[k] is the number of loss_monitor threads at point k
RECURSIVE CountThreads(_, _)
CountThreads(ms, points) ==
    IF points = {} THEN 0
    ELSE LET k == CHOOSE x \in points : TRUE
         IN ms[k] + CountThreads(ms, points \ {k})
NumMonitors(ms) == CountThreads(ms, MonitorPoints)

\* start_packet_loss_monitors without the test of the position: the leader
\* monitors the vehicle behind it (mutant)
MonitoredVehicles_LeaderToo(pos) ==
    IF pos = 0 THEN <<formation[2]>>
    ELSE IF formation[1] # formation[pos] THEN <<formation[1], formation[pos]>>
    ELSE <<formation[1]>>

\* start_packet_loss_monitors without the test leader != preceding: the
\* vehicle behind the leader monitors its one link twice (mutant)
MonitoredVehicles_BothAlways(pos) ==
    IF pos = 0 THEN <<>>
    ELSE <<formation[1], formation[pos]>>

\* the vehicles start_packet_loss_monitors starts a monitor for, in order
MonitoredVehicles(pos) ==
    IF pos = 0 THEN <<>>
    ELSE IF formation[1] # formation[pos] THEN <<formation[1], formation[pos]>>
    ELSE <<formation[1]>>

\* start_thread(self.loss_monitor, (vehicle,)) for each vehicle of vs: the
\* new thread is about to run its first loop test
RECURSIVE StartMonitors(_, _)
StartMonitors(ms, vs) ==
    IF vs = <<>> THEN ms
    ELSE StartMonitors([ms EXCEPT ![Awake(Head(vs))] = @ + 1], Tail(vs))

\* the application of the vehicle at position pos after __init__ and
\* start_application (on_start_application has started the monitors)
CaccStart(pos) ==
    /\ position = pos
    /\ using_cacc = TRUE
    /\ run_loss_monitors = TRUE
    /\ last_received_time = <<>>
    /\ last_received_seqn = <<>>
    /\ consecutive_packets = <<>>
    /\ monitors = StartMonitors([k \in MonitorPoints |-> 0],
                                MonitoredVehicles(pos))
    /\ receiver = "idle"
    /\ uptime = 0
    /\ commanded = "none"
    /\ since_switch = <<>>

CaccInit == \E pos \in Positions : CaccStart(pos)

\* update_packets_stats line 106 without the threshold (mutant)
RecoveryCondition_NoThreshold(cons) ==
    /\ cons[leader] >= 0
    /\ cons[preceding] >= 0

\* update_packets_stats line 106: the condition for switching back
RecoveryCondition(cons) ==
    /\ cons[leader] >= RecoveryThreshold
    /\ cons[preceding] >= RecoveryThreshold

\* evaluating line 106 raises KeyError when a counter it reads is missing;
\* the second counter is read only if the first one passes
RecoveryKeyError(cons) ==
    \/ leader \notin DOMAIN cons
    \/ /\ cons[leader] >= RecoveryThreshold
       /\ preceding \notin DOMAIN cons

\* one more packet of source has been processed since the last switch
CountPacket(count, source) ==
    DictSet(count, source,
            IF source \in DOMAIN count THEN count[source] + 1 ELSE 1)

\* receive(source, packet): log_packet and update_packets_stats, then
\* either the blocking call of line 108 or the call of line 120/122, whose
\* return ends receive.  packet is a VehicleDataMessage filled by from_json,
\* which sets no seqn attribute (messages.py 182-190): for every packet of
\* a source after its first one, line 99 reads packet.seqn and raises
\* AttributeError, whatever sequence number the envelope carries.  An
\* exception ends the process (KillingThread).
Receive(source, seqn) ==
    /\ alive
    /\ receiver = "idle"
    /\ seqn \in Seqns
    /\ IF is_leader \/ source \notin {leader, preceding}
       THEN UNCHANGED <<caccVars, alive, ctrlVars>>
       ELSE IF source \in DOMAIN last_received_seqn
       THEN /\ last_received_time' = DictSet(last_received_time, source, 0)
            /\ alive' = FALSE
            /\ UNCHANGED <<position, using_cacc, run_loss_monitors,
                           last_received_seqn, consecutive_packets, monitors,
                           receiver, uptime, ctrlVars>>
       ELSE LET cons == DictSet(consecutive_packets, source, 0)
            IN /\ last_received_time' = DictSet(last_received_time, source, 0)
               /\ last_received_seqn' =
                      DictSet(last_received_seqn, source, PACKET)
               /\ consecutive_packets' = cons
               /\ since_switch' = CountPacket(since_switch, source)
               /\ IF using_cacc
                  THEN UNCHANGED <<using_cacc, receiver, alive, commanded>>
                  ELSE IF RecoveryKeyError(cons)
                  THEN /\ alive' = FALSE
                       /\ UNCHANGED <<using_cacc, receiver, commanded>>
                  ELSE IF RecoveryCondition(cons)
                  THEN /\ using_cacc' = TRUE
                       /\ receiver' = "api_cacc"
                       /\ commanded' = "CACC"
                       /\ UNCHANGED alive
                  ELSE UNCHANGED <<using_cacc, receiver, alive, commanded>>
               /\ UNCHANGED <<position, run_loss_monitors, monitors, uptime>>
    /\ UNCHANGED notCacc

\* update_packets_stats lines 108-110: call_plexe_api(PAR_ACTIVE_CONTROLLER,
\* CACC) returns, start_packet_loss_monitors runs, and receive goes on to
\* its call at line 120 or 122 and ends.  No counter ever passes the
\* threshold of line 106 (see Receive), so receive never gets here and the
\* step is not part of CaccNext.
RecoveryCallReturns ==
    /\ alive
    /\ receiver = "api_cacc"
    /\ NumMonitors(monitors) + Len(MonitoredVehicles(position)) <= MaxMonitors
    /\ run_loss_monitors' = TRUE
    /\ monitors' = StartMonitors(monitors, MonitoredVehicles(position))
    /\ receiver' = "idle"
    /\ UNCHANGED <<position, using_cacc, last_received_time,
                   last_received_seqn, consecutive_packets, uptime, alive,
                   ctrlVars>>
    /\ UNCHANGED notCacc

\* loss_monitor lines 189-191
SilenceDetected(vehicle) ==
    /\ vehicle \in DOMAIN last_received_time
    /\ last_received_time[vehicle] > SilenceTicks

\* loss_monitor of a vehicle: one pass of the loop, from the loop test to
\* the sleep, the return, or the blocking call of loss_detected
MonitorWake(vehicle) ==
    /\ alive
    /\ monitors[Awake(vehicle)] > 0
    /\ monitors' =
          IF ~(run /\ run_loss_monitors)
          THEN [monitors EXCEPT ![Awake(vehicle)] = @ - 1]
          ELSE IF SilenceDetected(vehicle)
          THEN [monitors EXCEPT ![Awake(vehicle)] = @ - 1,
                                ![Calling(vehicle)] = @ + 1]
          ELSE [monitors EXCEPT ![Awake(vehicle)] = @ - 1,
                                ![Asleep(vehicle)] = @ + 1]
    /\ commanded' = IF run /\ run_loss_monitors /\ SilenceDetected(vehicle)
                    THEN "ACC" ELSE commanded
    /\ UNCHANGED <<position, using_cacc, run_loss_monitors, last_received_time,
                   last_received_seqn, consecutive_packets, receiver, uptime,
                   alive, since_switch>>
    /\ UNCHANGED notCacc

\* loss_detected that leaves the mode flag alone when its call has
\* returned (mutant)
LossDetectedReturns_KeepsMode(vehicle) ==
    /\ alive
    /\ monitors[Calling(vehicle)] > 0
    /\ run_loss_monitors' = FALSE
    /\ monitors' = [monitors EXCEPT ![Calling(vehicle)] = @ - 1]
    /\ since_switch' = <<>>
    /\ UNCHANGED <<position, using_cacc, last_received_time,
                   last_received_seqn, consecutive_packets, receiver, uptime,
                   alive, commanded>>
    /\ UNCHANGED notCacc

\* loss_detected lines 182-183 after call_plexe_api(PAR_ACTIVE_CONTROLLER,
\* ACC) has returned; the monitor thread ends
LossDetectedReturns(vehicle) ==
    /\ alive
    /\ monitors[Calling(vehicle)] > 0
    /\ using_cacc' = FALSE
    /\ run_loss_monitors' = FALSE
    /\ monitors' = [monitors EXCEPT ![Calling(vehicle)] = @ - 1]
    /\ since_switch' = <<>>
    /\ UNCHANGED <<position, last_received_time, last_received_seqn,
                   consecutive_packets, receiver, uptime, alive, commanded>>
    /\ UNCHANGED notCacc

\* a tick passes; a monitor whose sleep has ended runs first
CaccTick ==
    /\ alive
    /\ \A v \in Sources : monitors[Awake(v)] = 0
    /\ last_received_time' =
          [v \in DOMAIN last_received_time |->
              IF last_received_time[v] < AgeCap
              THEN last_received_time[v] + 1 ELSE AgeCap]
    /\ uptime' = IF uptime < AgeCap THEN uptime + 1 ELSE AgeCap
    /\ monitors' = [k \in MonitorPoints |->
                       IF k.pc = "calling" THEN monitors[k]
                       ELSE IF k.timer < BeaconTicks
                       THEN monitors[[k EXCEPT !.timer = @ + 1]]
                       ELSE 0]
    /\ UNCHANGED <<position, using_cacc, run_loss_monitors, last_received_seqn,
                   consecutive_packets, receiver, alive, ctrlVars>>
    /\ UNCHANGED notCacc

CaccNext ==
    \/ \E source \in Sources, seqn \in Seqns : Receive(source, seqn)
    \/ \E vehicle \in Sources : MonitorWake(vehicle)
    \/ \E vehicle \in Sources : LossDetectedReturns(vehicle)
    \/ CaccTick

(***************************************************************************)
(* End to end: the RPC bridge of vehicle p.0 and the API interpreter of    *)
(* the coordinator, joined by the bus.  A call envelope is on the bus from *)
(* its publication until the interpreter serves it; the response envelope  *)
(* the interpreter published last is on the bus until the vehicle's        *)
(* delivery thread has handled it.                                         *)
(***************************************************************************)
E2EVehicle == "p.0"

\* the call envelope of invocation c (call_plexe_api line 213): the first
\* invocation is send_beacon's read of the vehicle data, the others are
\* loss_detected's switch to ACC
E2ECall(c) ==
    [topic |-> E2EVehicle, sumo_id |-> E2EVehicle,
     api_code |-> IF c = 1 THEN "CC_PAR_VEHICLE_DATA"
                  ELSE "PAR_ACTIVE_CONTROLLER",
     transaction_id |-> caller[c].tid,
     parameters |-> IF c = 1 THEN "vehicle_data" ELSE "ACC"]

\* Application.on_message lines 186-188: the api_return envelope as the
\* vehicle decodes it; the content is labelled with the transaction id of
\* the envelope that carries it
E2EEnvelope(resp) ==
    [sumo_id |-> IF resp.sumo_id = E2EVehicle THEN "self" ELSE "other",
     transaction_id |-> resp.transaction_id,
     response |-> [tid |-> resp.transaction_id, value |-> resp.response]]

\* the response published last has been handled by the vehicle
E2EDelivered ==
    \/ lastServe.published = NoResponse
    \/ /\ lastServe.published.transaction_id \in DOMAIN accepted
       /\ accepted[lastServe.published.transaction_id] > 0

\* the coordinator receives the call envelope of invocation c and serves it
E2EServe(c) ==
    /\ caller[c].pc = "wait"
    /\ accepted[caller[c].tid] = 0
    /\ E2EDelivered
    /\ ServeApiCall(E2ECall(c), "valid", "ok")

\* the vehicle receives the response envelope the interpreter published
E2EDeliver ==
    /\ ~E2EDelivered
    /\ ResponseArrives(E2EEnvelope(lastServe.published))

E2ENext ==
    \/ \E c \in Callers : CallAllocate(c)
    \/ \E c \in Callers : CallRegister(c)
    \/ \E c \in Callers : CallPublish(c)
    \/ \E c \in Callers : E2EServe(c)
    \/ E2EDeliver
    \/ ReturnCheckStored
    \/ ReturnStore
    \/ ReturnSignal
    \/ \E c \in Callers : AcquireOk(c)
    \/ \E c \in Callers : CallRead(c)
    \/ \E c \in Callers : CallDelValue(c)
    \/ \E c \in Callers : CallDelSemaphore(c)

(***************************************************************************)
(* Simulation loop: colosseumo.py Colosseumo.run_simulation with           *)
(* update_vehicles, process_old_vehicles, process_new_vehicles and         *)
(* process_subscriptions, and the control topic of Colosseumo.on_message.  *)
(* The loops over the old and the new vehicles take one vehicle per step,  *)
(* in any order (they iterate over Python sets).                           *)
(***************************************************************************)
\* the messages of an update: CurrentTimeMessage, NewVehicleMessage,
\* DeleteVehicleMessage and PositionUpdateMessage, by the fields that
\* identify vehicle and node
TimeMsg == [type |-> "time", sumo_id |-> NO_VEHICLE, colosseum_id |-> NOT_LEASED]

NewVehicleMsg(sumo_vehicle, colosseum_node) ==
    [type |-> "new_vehicle", sumo_id |-> sumo_vehicle,
     colosseum_id |-> colosseum_node]

DeleteVehicleMsg(sumo_vehicle, colosseum_node) ==
    [type |-> "delete_vehicle", sumo_id |-> sumo_vehicle,
     colosseum_id |-> colosseum_node]

PositionUpdateMsg(colosseum_node) ==
    [type |-> "update_position", sumo_id |-> NO_VEHICLE,
     colosseum_id |-> colosseum_node]

\* Colosseumo.__init__ (the fields of the simulation loop) and the entry of
\* run_simulation, in test mode or not
SimStart(test) ==
    /\ sumo_vehicles = {}
    /\ new_vehicles = {}
    /\ old_vehicles = {}
    /\ update_msg = {}
    /\ subscriptions = {}
    /\ traci_subscribed = {}
    /\ applications = {}
    /\ waiting_for_colosseum = FALSE
    /\ stop_simulation = FALSE
    /\ test_mode = test
    /\ sim_pc = "loop"

SimInit == \E test \in BOOLEAN : SimStart(test)

\* the condition of the main loop; time_over is current_time > max_time
LoopCheck(time_over) ==
    /\ sim_pc = "loop"
    /\ sim_pc' = IF time_over \/ stop_simulation THEN "cleanup" ELSE "wait"
    /\ UNCHANGED <<leaseVars, sumo_vehicles, new_vehicles, old_vehicles,
                   update_msg, subscriptions, traci_subscribed, applications,
                   waiting_for_colosseum, stop_simulation, test_mode>>
    /\ UNCHANGED notSim

\* one pass of the loop body up to update_vehicles: the wait for the start
\* signal is over, the simulator steps and reports the vehicles id_list
SimulationStep(id_list) ==
    /\ sim_pc = "wait"
    /\ ~waiting_for_colosseum
    /\ update_msg' = {TimeMsg}
    /\ subscriptions' = traci_subscribed \cap id_list
    /\ new_vehicles' = id_list \ sumo_vehicles
    /\ old_vehicles' = sumo_vehicles \ id_list
    /\ sumo_vehicles' = id_list
    /\ sim_pc' = "step"
    /\ UNCHANGED <<leaseVars, traci_subscribed, applications,
                   waiting_for_colosseum, stop_simulation, test_mode>>
    /\ UNCHANGED notSim

\* traci.simulationStep raises FatalTraCIError
SimulationStepFails ==
    /\ sim_pc = "wait"
    /\ ~waiting_for_colosseum
    /\ stop_simulation' = TRUE
    /\ sim_pc' = "loop"
    /\ UNCHANGED <<leaseVars, sumo_vehicles, new_vehicles, old_vehicles,
                   update_msg, subscriptions, traci_subscribed, applications,
                   waiting_for_colosseum, test_mode>>
    /\ UNCHANGED notSim

\* process_old_vehicles, one vehicle of the loop
ProcessOldVehicle(sumo_vehicle) ==
    /\ sim_pc = "step"
    /\ sumo_vehicle \in old_vehicles
    /\ old_vehicles' = old_vehicles \ {sumo_vehicle}
    /\ IF get_colosseum_node(sumo_vehicle) = NOT_LEASED
       THEN UNCHANGED <<leaseVars, update_msg, traci_subscribed,
                        applications, sim_pc>>
       ELSE /\ traci_subscribed' = traci_subscribed \ {sumo_vehicle}
            /\ ReleaseNode(sumo_vehicle)
            /\ update_msg' = update_msg \cup
                   {DeleteVehicleMsg(sumo_vehicle,
                                     get_colosseum_node(sumo_vehicle))}
            /\ IF test_mode
               THEN IF sumo_vehicle \in applications
                    THEN /\ applications' = applications \ {sumo_vehicle}
                         /\ UNCHANGED sim_pc
                    ELSE \* self.applications[sumo_vehicle]: KeyError
                         /\ sim_pc' = "crashed"
                         /\ UNCHANGED applications
               ELSE UNCHANGED <<applications, sim_pc>>
    /\ UNCHANGED <<sumo_vehicles, new_vehicles, subscriptions,
                   waiting_for_colosseum, stop_simulation, test_mode>>
    /\ UNCHANGED notSim

\* process_new_vehicles announcing a vehicle that got no node (mutant)
ProcessNewVehicle_AnnouncesUnmanaged(sumo_vehicle) ==
    /\ sim_pc = "step"
    /\ old_vehicles = {}
    /\ sumo_vehicle \in new_vehicles
    /\ new_vehicles' = new_vehicles \ {sumo_vehicle}
    /\ waiting_for_colosseum' = (waiting_for_colosseum \/ ~test_mode)
    /\ AssignNode(sumo_vehicle)
    /\ update_msg' = update_msg \cup
           {NewVehicleMsg(sumo_vehicle, lastOp'.ret)}
    /\ IF lastOp'.ret = NOT_LEASED
       THEN UNCHANGED <<traci_subscribed, sim_pc>>
       ELSE /\ traci_subscribed' = traci_subscribed \cup {sumo_vehicle}
            /\ sim_pc' = IF test_mode THEN "crashed" ELSE sim_pc
    /\ UNCHANGED <<sumo_vehicles, old_vehicles, subscriptions, applications,
                   stop_simulation, test_mode>>
    /\ UNCHANGED notSim

\* process_new_vehicles, one vehicle of the loop.  In test mode the
\* application is constructed with addresses None, and Application.init_udp
\* raises TypeError on iterating it: the vehicle has its lease and its
\* message by then, the application is never stored.
ProcessNewVehicle(sumo_vehicle) ==
    /\ sim_pc = "step"
    /\ old_vehicles = {}
    /\ sumo_vehicle \in new_vehicles
    /\ new_vehicles' = new_vehicles \ {sumo_vehicle}
    /\ waiting_for_colosseum' = (waiting_for_colosseum \/ ~test_mode)
    /\ AssignNode(sumo_vehicle)
    /\ IF lastOp'.ret = NOT_LEASED
       THEN UNCHANGED <<update_msg, traci_subscribed, sim_pc>>
       ELSE /\ update_msg' = update_msg \cup
                   {NewVehicleMsg(sumo_vehicle, lastOp'.ret)}
            /\ traci_subscribed' = traci_subscribed \cup {sumo_vehicle}
            /\ sim_pc' = IF test_mode THEN "crashed" ELSE sim_pc
    /\ UNCHANGED <<sumo_vehicles, old_vehicles, subscriptions, applications,
                   stop_simulation, test_mode>>
    /\ UNCHANGED notSim

\* process_subscriptions and the publication of the step's update: a
\* position message for every key of vehicle_to_node that is in the
\* subscription results fetched before the vehicles were processed
PublishUpdate ==
    /\ sim_pc = "step"
    /\ old_vehicles = {}
    /\ new_vehicles = {}
    /\ update_msg' = update_msg \cup
           {PositionUpdateMsg(vehicle_to_node[v]) :
                v \in BidictKeys(vehicle_to_node) \cap subscriptions}
    /\ sim_pc' = "loop"
    /\ UNCHANGED <<leaseVars, sumo_vehicles, new_vehicles, old_vehicles,
                   subscriptions, traci_subscribed, applications,
                   waiting_for_colosseum, stop_simulation, test_mode>>
    /\ UNCHANGED notSim

\* the cleanup after the main loop: every key of vehicle_to_node is
\* released and a delete message for it is published
Cleanup ==
    /\ sim_pc = "cleanup"
    /\ available_nodes' = available_nodes \cup BidictValues(vehicle_to_node)
    /\ update_msg' = {DeleteVehicleMsg(v, vehicle_to_node[v]) :
                          v \in BidictKeys(vehicle_to_node)}
    /\ applications' = IF test_mode THEN {} ELSE applications
    /\ sim_pc' = "closed"
    /\ UNCHANGED <<vehicle_to_node, lastOp, sumo_vehicles, new_vehicles,
                   old_vehicles, subscriptions, traci_subscribed,
                   waiting_for_colosseum, stop_simulation, test_mode>>
    /\ UNCHANGED notSim

\* Colosseumo.on_message, COLOSSEUM_UPDATE_TOPIC with a start_simulation
\* message
ColosseumStart ==
    /\ sim_pc \notin {"closed", "crashed"}
    /\ waiting_for_colosseum' = FALSE
    /\ UNCHANGED <<leaseVars, sumo_vehicles, new_vehicles, old_vehicles,
                   update_msg, subscriptions, traci_subscribed, applications,
                   stop_simulation, test_mode, sim_pc>>
    /\ UNCHANGED notSim

\* Colosseumo.on_message, COLOSSEUM_UPDATE_TOPIC with a stop_simulation
\* message
ColosseumStop ==
    /\ sim_pc \notin {"closed", "crashed"}
    /\ stop_simulation' = TRUE
    /\ UNCHANGED <<leaseVars, sumo_vehicles, new_vehicles, old_vehicles,
                   update_msg, subscriptions, traci_subscribed, applications,
                   waiting_for_colosseum, test_mode, sim_pc>>
    /\ UNCHANGED notSim

\* the steps of the run_simulation thread
RunSimulationStep ==
    \/ \E time_over \in BOOLEAN : LoopCheck(time_over)
    \/ \E id_list \in SUBSET Entities : SimulationStep(id_list)
    \/ SimulationStepFails
    \/ \E sumo_vehicle \in Entities : ProcessOldVehicle(sumo_vehicle)
    \/ \E sumo_vehicle \in Entities : ProcessNewVehicle(sumo_vehicle)
    \/ PublishUpdate
    \/ Cleanup

SimNext ==
    \/ \E time_over \in BOOLEAN : LoopCheck(time_over)
    \/ \E id_list \in SUBSET Entities : SimulationStep(id_list)
    \/ SimulationStepFails
    \/ \E sumo_vehicle \in Entities : ProcessOldVehicle(sumo_vehicle)
    \/ \E sumo_vehicle \in Entities : ProcessNewVehicle(sumo_vehicle)
    \/ PublishUpdate
    \/ Cleanup
    \/ ColosseumStart
    \/ ColosseumStop

(***************************************************************************)
(* Beaconing: cacc_application.py CACCApplication.beaconing_thread and     *)
(* send_beacon, of a running application (no stop_application), next to    *)
(* its link monitor.                                                       *)
(***************************************************************************)
\* parse_parameters: the last vehicle of the formation
is_last == position = Len(formation) - 1

\* the keyword parameters of VehicleDataMessage.__init__ (messages.py 158)
VehicleDataMessageParams ==
    {"sumo_id", "controller_acceleration", "acceleration", "speed", "time",
     "x", "y", "sender"}

\* send_beacon line 131 constructs VehicleDataMessage(seqn=...): a keyword
\* the constructor does not have raises TypeError
BeaconMessageError == "seqn" \notin VehicleDataMessageParams

\* the beaconing thread as on_start_application starts it
BeaconStart ==
    /\ beacon_pc = "loop"
    /\ beacon_id = 0

\* beaconing_thread: the loop test passes (the application runs) and
\* send_beacon blocks in call_plexe_api(CC_PAR_VEHICLE_DATA)
BeaconCall ==
    /\ alive
    /\ run
    /\ beacon_pc = "loop"
    /\ beacon_pc' = "calling"
    /\ UNCHANGED <<beacon_id, caccVars, alive>>
    /\ UNCHANGED notBeacon

\* send_beacon from the return of call_plexe_api with the vehicle's data
\* (never None while the application runs) to the sleep of beaconing_thread.
\* An exception ends the process (KillingThread).
BeaconDataReturns ==
    /\ alive
    /\ beacon_pc = "calling"
    /\ IF BeaconMessageError
       THEN /\ beacon_pc' = "raised"
            /\ alive' = FALSE
            /\ UNCHANGED beacon_id
       ELSE /\ beacon_pc' = "sleep"
            /\ beacon_id' = IF is_last THEN beacon_id ELSE beacon_id + 1
            /\ UNCHANGED alive
    /\ UNCHANGED caccVars
    /\ UNCHANGED notBeacon

\* the application: its receiver and its loss monitors of CaccNext next to
\* its beaconing thread
BeaconNext ==
    \/ \E source \in Sources, seqn \in Seqns : Receive(source, seqn)
    \/ \E vehicle \in Sources : MonitorWake(vehicle)
    \/ \E vehicle \in Sources : LossDetectedReturns(vehicle)
    \/ CaccTick
    \/ BeaconCall
    \/ BeaconDataReturns

(***************************************************************************)
(* Message codec: messages.py, Message.to_json and Message.from_json with  *)
(* check_for_keys and the from_object of every message class.  The JSON    *)
(* text of a message is its type and the key/value pairs of its content    *)
(* in the order dumps writes them; loads builds the mapping again.         *)
(***************************************************************************)
Kinds ==
    {"time", "new_vehicle", "delete_vehicle", "update_position",
     "vehicle_data", "start_simulation", "stop_simulation", "api_call",
     "api_return"}

\* None
NoValue == 0
FieldValues == 1..MaxValue

\* the keys of self.content as the constructor of each class writes them
ContentKeySeq(kind) ==
    CASE kind = "time" -> <<"time">>
      [] kind \in {"new_vehicle", "delete_vehicle"} ->
             <<"sumo_id", "colosseum_id", "application", "parameters">>
      [] kind = "update_position" -> <<"colosseum_id", "x", "y", "crs">>
      [] kind = "vehicle_data" ->
             <<"sumo_id", "controller_acceleration", "acceleration", "speed",
               "time", "x", "y", "sender">>
      [] kind \in {"start_simulation", "stop_simulation"} -> <<>>
      [] kind = "api_call" ->
             <<"sumo_id", "api_code", "transaction_id", "parameters">>
      [] kind = "api_return" ->
             <<"sumo_id", "api_code", "transaction_id", "response">>

\* the keys of self.content each from_object reads, in order
FromObjectKeySeq(kind) ==
    CASE kind \in {"new_vehicle", "delete_vehicle"} ->
             <<"sumo_id", "colosseum_id", "application", "parameters",
               "timestamp">>
      [] kind = "update_position" -> <<"colosseum_id", "x", "y">>
      [] kind \in {"start_simulation", "stop_simulation"} -> <<>>
      [] OTHER -> ContentKeySeq(kind)

SeqRange(q) == {q[i] : i \in 1..Len(q)}

\* a message object: self.type, self.keys (the key view of the
\* constructor's content), self.content and the attributes of the fields
MessageObject(kind, content) ==
    [type |-> kind,
     keys |-> SeqRange(ContentKeySeq(kind)),
     content |-> content,
     fields |-> content]

\* the constructor without arguments: every field None
NewMessage(kind) ==
    MessageObject(kind, [k \in SeqRange(ContentKeySeq(kind)) |-> NoValue])

\* the constructor with every argument it takes set to value;
\* DeleteVehicleMessage passes on sumo_id and colosseum_id only
FilledMessage(kind, value) ==
    MessageObject(kind,
        [k \in SeqRange(ContentKeySeq(kind)) |->
            IF kind = "delete_vehicle" /\ k \in {"application", "parameters"}
            THEN NoValue ELSE value])

\* Message.to_json: dumps(to_object())
to_json(msg) ==
    [type |-> msg.type,
     content |-> [i \in 1..Len(ContentKeySeq(msg.type)) |->
                     <<ContentKeySeq(msg.type)[i],
                       msg.content[ContentKeySeq(msg.type)[i]]>>]]

\* loads: the mapping of a sequence of key/value pairs
LoadsContent(pairs) ==
    [k \in {pairs[i][1] : i \in 1..Len(pairs)} |->
        pairs[CHOOSE i \in 1..Len(pairs) :
                 /\ pairs[i][1] = k
                 /\ \A j \in (i + 1)..Len(pairs) : pairs[j][1] # k][2]]

\* Message.check_for_keys
check_for_keys(keys, content) == \A k \in keys : k \in DOMAIN content

\* from_object: the attributes are assigned one after the other from
\* self.content; reading a key that is not there raises KeyError and
\* leaves the attributes assigned so far
RECURSIVE from_object(_, _, _)
from_object(fields, content, keyseq) ==
    IF keyseq = <<>> THEN [raised |-> FALSE, fields |-> fields]
    ELSE IF Head(keyseq) \notin DOMAIN content
    THEN [raised |-> TRUE, fields |-> fields]
    ELSE from_object(
             [k \in (DOMAIN fields) \cup {Head(keyseq)} |->
                 IF k = Head(keyseq) THEN content[k] ELSE fields[k]],
             content, Tail(keyseq))

\* from_json not checking the keys (mutant)
from_json_NoKeyCheck(msg, json) ==
    IF json.type # msg.type
    THEN [ret |-> "False", msg |-> msg]
    ELSE LET content == LoadsContent(json.content)
             o == from_object(msg.fields, content,
                              FromObjectKeySeq(msg.type))
         IN  [ret |-> IF o.raised THEN "KeyError" ELSE "True",
              msg |-> [msg EXCEPT !.content = content, !.fields = o.fields]]

\* Message.from_json: what it returns or raises, and the object afterwards
from_json(msg, json) ==
    IF json.type # msg.type
    THEN [ret |-> "False", msg |-> msg]
    ELSE LET content == LoadsContent(json.content)
         IN  IF ~check_for_keys(msg.keys, content)
             THEN [ret |-> "False", msg |-> [msg EXCEPT !.content = content]]
             ELSE LET o == from_object(msg.fields, content,
                                       FromObjectKeySeq(msg.type))
                  IN  [ret |-> IF o.raised THEN "KeyError" ELSE "True",
                       msg |-> [msg EXCEPT !.content = content,
                                           !.fields = o.fields]]

NoJson == [type |-> "none", content |-> <<>>]

\* no message encoded or decoded yet
CodecStart ==
    /\ codec_sent = NewMessage("time")
    /\ codec_json = NoJson
    /\ codec_recv = NewMessage("time")
    /\ codec_ret = "none"

\* a message of a kind is built with its fields set and encoded
CodecEncode(kind, value) ==
    /\ codec_sent' = FilledMessage(kind, value)
    /\ codec_json' = to_json(FilledMessage(kind, value))
    /\ codec_recv' = NewMessage("time")
    /\ codec_ret' = "none"
    /\ UNCHANGED notCodec

\* a payload that lacks one of the keys of the encoded one (payloads come
\* from the network)
CodecDropKey(key) ==
    /\ \E i \in 1..Len(codec_json.content) : codec_json.content[i][1] = key
    /\ codec_json' =
          [codec_json EXCEPT
              !.content = SelectSeq(@, LAMBDA pair : pair[1] # key)]
    /\ codec_recv' = NewMessage("time")
    /\ codec_ret' = "none"
    /\ UNCHANGED codec_sent
    /\ UNCHANGED notCodec

\* a new message object of a kind decodes the payload
CodecDecode(kind) ==
    /\ codec_json # NoJson
    /\ codec_ret = "none"
    /\ codec_recv' = from_json(NewMessage(kind), codec_json).msg
    /\ codec_ret' = from_json(NewMessage(kind), codec_json).ret
    /\ UNCHANGED <<codec_sent, codec_json>>
    /\ UNCHANGED notCodec

AllKeys == UNION {SeqRange(ContentKeySeq(kind)) : kind \in Kinds}

CodecNext ==
    \/ \E kind \in Kinds, value \in FieldValues : CodecEncode(kind, value)
    \/ \E key \in AllKeys : CodecDropKey(key)
    \/ \E kind \in Kinds : CodecDecode(kind)

(***************************************************************************)
(* Receive threads of the test mode: application.py on_message lines       *)
(* 190-197 starts one KillingThread per peer-data envelope, each running   *)
(* receive(message.sender, message) of cacc_application.py.  The threads   *)
(* share last_received_time, last_received_seqn and consecutive_packets    *)
(* and take no lock: a thread can be preempted between any two statements  *)
(* of update_packets_stats.  The sequence number of the envelope is left   *)
(* out: no statement that a thread gets through reads it (see Receive).    *)
(***************************************************************************)
Tasks == 1..MaxTasks

RecvStart ==
    recv_task = [t \in Tasks |-> [pc |-> "idle", source |-> "None"]]

\* the thread t goes on to pc
TaskAt(t, pc) == [recv_task EXCEPT ![t].pc = pc]

\* on_message lines 191-197: an envelope of source arrives and its thread
\* is started; receive lines 115-118: the leader, and a vehicle that hears
\* an untracked sender, return at once
TaskSpawn(t, source) ==
    /\ alive
    /\ recv_task[t].pc = "idle"
    /\ recv_task' =
          [recv_task EXCEPT ![t] =
              [pc |-> IF is_leader \/ source \notin {leader, preceding}
                      THEN "done" ELSE "line94",
               source |-> source]]
    /\ UNCHANGED <<caccVars, alive>>
    /\ UNCHANGED <<notRecv, ctrlVars>>

\* update_packets_stats line 94
TaskStamp(t) ==
    /\ alive
    /\ recv_task[t].pc = "line94"
    /\ last_received_time' =
          DictSet(last_received_time, recv_task[t].source, 0)
    /\ recv_task' = TaskAt(t, "line95")
    /\ UNCHANGED <<position, using_cacc, run_loss_monitors, last_received_seqn,
                   consecutive_packets, monitors, receiver, uptime, alive>>
    /\ UNCHANGED <<notRecv, ctrlVars>>

\* update_packets_stats line 95: the test source not in last_received_seqn
TaskTest(t) ==
    /\ alive
    /\ recv_task[t].pc = "line95"
    /\ recv_task' =
          TaskAt(t, IF recv_task[t].source \notin DOMAIN last_received_seqn
                    THEN "line96" ELSE "line99")
    /\ UNCHANGED <<caccVars, alive>>
    /\ UNCHANGED <<notRecv, ctrlVars>>

\* update_packets_stats line 96
TaskFirstSeqn(t) ==
    /\ alive
    /\ recv_task[t].pc = "line96"
    /\ last_received_seqn' =
          DictSet(last_received_seqn, recv_task[t].source, PACKET)
    /\ recv_task' = TaskAt(t, "line97")
    /\ UNCHANGED <<position, using_cacc, run_loss_monitors, last_received_time,
                   consecutive_packets, monitors, receiver, uptime, alive>>
    /\ UNCHANGED <<notRecv, ctrlVars>>

\* update_packets_stats line 97
TaskFirstCounter(t) ==
    /\ alive
    /\ recv_task[t].pc = "line97"
    /\ consecutive_packets' =
          DictSet(consecutive_packets, recv_task[t].source, 0)
    /\ recv_task' = TaskAt(t, "line104")
    /\ UNCHANGED <<position, using_cacc, run_loss_monitors, last_received_time,
                   last_received_seqn, monitors, receiver, uptime, alive>>
    /\ UNCHANGED <<notRecv, ctrlVars>>

\* update_packets_stats line 99: packet.seqn raises AttributeError, and the
\* KillingThread ends the process
TaskLater(t) ==
    /\ alive
    /\ recv_task[t].pc = "line99"
    /\ alive' = FALSE
    /\ recv_task' = TaskAt(t, "raised")
    /\ UNCHANGED caccVars
    /\ UNCHANGED <<notRecv, ctrlVars>>

\* update_packets_stats lines 104-110 and receive lines 119-122: in CACC
\* mode the recovery test is skipped; otherwise line 106 is evaluated, and
\* the recovery switch is taken if it passes.  Then the call of line 120
\* or 122 is made and the thread ends.
TaskCheck(t) ==
    /\ alive
    /\ recv_task[t].pc = "line104"
    /\ IF using_cacc
       THEN /\ recv_task' = TaskAt(t, "done")
            /\ UNCHANGED <<using_cacc, alive, commanded>>
       ELSE IF RecoveryKeyError(consecutive_packets)
       THEN /\ recv_task' = TaskAt(t, "raised")
            /\ alive' = FALSE
            /\ UNCHANGED <<using_cacc, commanded>>
       ELSE IF RecoveryCondition(consecutive_packets)
       THEN /\ recv_task' = TaskAt(t, "done")
            /\ using_cacc' = TRUE
            /\ commanded' = "CACC"
            /\ UNCHANGED alive
       ELSE /\ recv_task' = TaskAt(t, "done")
            /\ UNCHANGED <<using_cacc, alive, commanded>>
    /\ UNCHANGED <<position, run_loss_monitors, last_received_time,
                   last_received_seqn, consecutive_packets, monitors, receiver,
                   uptime, since_switch>>
    /\ UNCHANGED notRecv

RecvNext ==
    \/ \E t \in Tasks, source \in Sources : TaskSpawn(t, source)
    \/ \E t \in Tasks : TaskStamp(t)
    \/ \E t \in Tasks : TaskTest(t)
    \/ \E t \in Tasks : TaskFirstSeqn(t)
    \/ \E t \in Tasks : TaskFirstCounter(t)
    \/ \E t \in Tasks : TaskLater(t)
    \/ \E t \in Tasks : TaskCheck(t)

(***************************************************************************)
(* Specifications                                                          *)
(***************************************************************************)
\* every subsystem starts in the state its constructor leaves
Init ==
    /\ LeaseInit /\ RPCInit /\ InterpInit /\ CaccStart(1)
    /\ SimStart(FALSE) /\ BeaconStart /\ CodecStart /\ RecvStart
    /\ RegStart

\* the same with the link monitor of a vehicle at any position
InitCacc ==
    /\ LeaseInit /\ RPCInit /\ InterpInit /\ CaccInit
    /\ SimStart(FALSE) /\ BeaconStart /\ CodecStart /\ RecvStart
    /\ RegStart

\* the simulation loop, in test mode or with Colosseum
InitSim ==
    /\ LeaseInit /\ RPCInit /\ InterpInit /\ CaccStart(1)
    /\ SimInit /\ BeaconStart /\ CodecStart /\ RecvStart /\ RegStart

SpecLease == Init /\ [][LeaseNext]_vars

SpecRPC == Init /\ [][RPCNext]_vars

SpecInterp == Init /\ [][InterpNext]_vars

SpecCacc == InitCacc /\ [][CaccNext]_vars

SpecE2E == Init /\ [][E2ENext]_vars

SpecSim == InitSim /\ [][SimNext]_vars

\* the simulation loop with its thread always scheduled: a step of
\* run_simulation that can be taken is taken.  The control messages come
\* from outside and are under no such condition.
SpecSimLive == InitSim /\ [][SimNext]_vars /\ WF_vars(RunSimulationStep)

SpecBeacon == InitCacc /\ [][BeaconNext]_vars

SpecCodec == Init /\ [][CodecNext]_vars

SpecRecv == InitCacc /\ [][RecvNext]_vars

SpecReg == Init /\ [][RegNext]_vars

(***************************************************************************)
(* Claims about the RPC bridge, checked under SpecRPC.                     *)
(***************************************************************************)
\* the invocations that hold a transaction id
Issued == {c \in Callers : caller[c].pc # "idle"}

\* C1: transaction isolation.  Concurrent invocations hold pairwise
\* distinct transaction ids, and an invocation that has read a result has
\* read the response of the envelope that carried its own transaction id,
\* never the response of another transaction.
C1_TransactionIsolation ==
    /\ \A c, d \in Issued : c # d => caller[c].tid # caller[d].tid
    /\ \A c \in Callers :
          (caller[c].pc \in {"read", "valueDeleted", "returned"}
               /\ caller[c].ret # NoneValue)
          => caller[c].ret = Response(caller[c].tid)

\* every invocation has returned a result while the others were in flight
C1_Witness ==
    \A c \in Callers :
        caller[c].pc = "returned" /\ caller[c].ret = Response(caller[c].tid)

\* C2: for every transaction id the response-dispatch path stores a result
\* and signals the semaphore at most once, whatever the interleaving of a
\* duplicate response with the caller's wake-up and clean-up.
C2_AtMostOneAccepted ==
    \A t \in TransactionIds : accepted[t] <= 1

\* C8: shutdown cancellation.  An invocation that was blocked when run was
\* cleared and whose transaction is never answered is still blocked for at
\* most one polling interval after that, and then has returned None.
C8_ShutdownCancellation ==
    \A c \in blockedAtStop :
        accepted[caller[c].tid] = 0
        => \/ caller[c].pc = "wait" /\ sinceStop <= PollTicks
           \/ caller[c].pc = "returned" /\ caller[c].ret = NoneValue

\* a blocked invocation has returned None one polling interval after the
\* stop, with no response ever accepted
C8_Witness ==
    \E c \in blockedAtStop :
        /\ caller[c].pc = "returned"
        /\ caller[c].ret = NoneValue
        /\ sinceStop = PollTicks
        /\ \A t \in TransactionIds : accepted[t] = 0
        /\ api_call_return_value = <<>>

\* the delivery thread takes a step on envelope msg at the check of the
\* pending entry (arrival) or at the check of the stored result
AtPendingCheck(msg) ==
    mqtt.pc = "idle" /\ mqtt'.pc # "idle" /\ mqtt'.msg = msg
AtStoredCheck(msg) ==
    mqtt.pc = "checkStored" /\ mqtt'.pc # "checkStored" /\ mqtt.msg = msg

\* C9 as claimed: a response whose transaction id has no pending entry, or
\* whose result is already stored, ends the process at once, with the
\* stored results and the semaphores untouched.
C9_UnknownOrDuplicateExits ==
    [][\A msg \in ResponseEnvelopes :
          (\/ AtPendingCheck(msg)
                 /\ msg.transaction_id \notin DOMAIN api_semaphores
           \/ AtStoredCheck(msg)
                 /\ msg.transaction_id \in DOMAIN api_call_return_value)
          => /\ ~alive'
             /\ UNCHANGED <<api_call_return_value, api_semaphores>>]_vars

\* C9 amended: the same for the responses that carry this vehicle's own
\* sumo_id; a response that carries another sumo_id is ignored and the
\* process goes on.
C9_OwnUnknownOrDuplicateExits ==
    [][\A msg \in ResponseEnvelopes :
          /\ (\/ AtPendingCheck(msg) /\ msg.sumo_id = "self"
                    /\ msg.transaction_id \notin DOMAIN api_semaphores
              \/ AtStoredCheck(msg)
                    /\ msg.transaction_id \in DOMAIN api_call_return_value)
             => /\ ~alive'
                /\ UNCHANGED <<api_call_return_value, api_semaphores>>
          /\ (AtPendingCheck(msg) /\ msg.sumo_id # "self")
             => /\ alive'
                /\ UNCHANGED <<api_call_return_value, api_semaphores>>]_vars

\* the process has ended on a duplicate: a response for a pending
\* transaction whose result was already stored
C9_Witness ==
    /\ ~alive
    /\ mqtt.pc = "exited"
    /\ mqtt.msg.sumo_id = "self"
    /\ mqtt.msg.transaction_id \in DOMAIN api_semaphores
    /\ mqtt.msg.transaction_id \in DOMAIN api_call_return_value

\* C14: the transaction ids of the invocations are pairwise distinct and
\* below the counter, every pending id (one with a semaphore) and every id
\* with a stored result belongs to exactly one invocation, and the counter
\* never decreases.
C14_IdsNeverReused ==
    [][/\ transaction_id' >= transaction_id
       /\ \A c, d \in Callers :
             (c # d /\ caller'[c].pc # "idle" /\ caller'[d].pc # "idle")
             => caller'[c].tid # caller'[d].tid
       /\ \A c \in Callers :
             caller'[c].pc # "idle" => caller'[c].tid < transaction_id'
       /\ \A t \in (DOMAIN api_semaphores') \cup (DOMAIN api_call_return_value') :
             Cardinality({c \in Callers :
                            caller'[c].pc # "idle" /\ caller'[c].tid = t}) = 1
      ]_vars

\* C14 witness: two invocations are pending at once under different ids
\* and the result of one of them is stored.
C14_Witness ==
    /\ \A c \in Callers : caller[c].pc = "wait"
    /\ Cardinality({caller[c].tid : c \in Callers}) = Cardinality(Callers)
    /\ DOMAIN api_semaphores = {caller[c].tid : c \in Callers}
    /\ DOMAIN api_call_return_value # {}

\* C15: no call envelope is published more than once, an invocation that
\* waits has published exactly one, and while the running flag is set an
\* invocation for whose transaction no response has been accepted has not
\* left its wait.
C15_OnePublishNoTimeout ==
    /\ \A t \in TransactionIds : published[t] <= 1
    /\ \A c \in Callers :
          /\ caller[c].pc = "wait" => published[caller[c].tid] = 1
          /\ (caller[c].pc \in {"signalled", "read", "valueDeleted",
                                "returned", "raised"}
                 /\ run)
             => accepted[caller[c].tid] > 0

\* C15 witness: an invocation has waited a whole polling interval for a
\* response that has not come, the flag still set, its one envelope sent.
C15_Witness ==
    \E c \in Callers :
        /\ caller[c].pc = "wait"
        /\ caller[c].timer = PollTicks
        /\ run
        /\ published[caller[c].tid] = 1
        /\ accepted[caller[c].tid] = 0
        /\ api_semaphores[caller[c].tid] = 0
        /\ mqtt.pc = "idle"

\* C24: the allocation of a transaction id and the registration of its
\* pending entry are one critical section: once an invocation has taken
\* its id, the next step of the entity is the registration of that id.
C24_AllocateRegisterAtomic ==
    [][\A c \in Callers :
          caller[c].pc = "allocated" => caller'[c].pc = "registered"]_vars

\* C25: the pending entry of a transaction exists before its call envelope
\* is published, under every interleaving of the calling threads and the
\* delivery thread, so that no response to the call comes before the entry.
C25_RegisteredBeforePublished ==
    [][\A t \in TransactionIds :
          published'[t] > published[t] => t \in DOMAIN api_semaphores]_vars

\* C25 witness: the response of a published call has been stored and
\* signalled while another invocation holds an id that is not registered.
C25_Witness ==
    \E t \in TransactionIds, c \in Callers :
        /\ published[t] = 1
        /\ accepted[t] = 1
        /\ caller[c].pc = "allocated"
        /\ caller[c].tid # t
        /\ caller[c].tid \notin DOMAIN api_semaphores

\* C26: after a call has been signalled and has returned its result, no
\* stored result and no pending entry of its transaction id remains.
C26_NothingLeftAfterReturn ==
    \A c \in Callers :
        (caller[c].pc = "returned" /\ caller[c].ret # NoneValue)
        => /\ caller[c].tid \notin DOMAIN api_call_return_value
           /\ caller[c].tid \notin DOMAIN api_semaphores

\* C36: a caller that is past its semaphore wait finds the result of its
\* own transaction stored: neither the read of line 226 nor the removal of
\* line 227 fails, in any interleaving.
C36_ResultStoredWhenSignalled ==
    \A c \in Callers :
       /\ caller[c].pc \in {"signalled", "read"}
             => caller[c].tid \in DOMAIN api_call_return_value
       /\ caller[c].pc # "raised"

\* C36 witness: an invocation is past its wait and has not read yet, its
\* result is stored, and another invocation is still waiting.
C36_Witness ==
    \E c, d \in Callers :
       /\ caller[c].pc = "signalled"
       /\ caller[c].tid \in DOMAIN api_call_return_value
       /\ caller[d].pc = "wait"

(***************************************************************************)
(* Claims about the API interpreter, checked under SpecInterp.             *)
(***************************************************************************)
\* C10: when the simulation-control API fails while serve_api_call handles
\* a call, no response envelope is published for that call and the
\* interpreter goes on to serve the calls that follow.
C10_ApiFailureDropsResponse ==
    lastServe.api \in {"FatalTraCIError", "TraCIException"}
    => /\ lastServe.published = NoResponse
       /\ coord_thread = "idle"
       /\ ENABLED InterpNext

\* C11: an api_call envelope that is malformed or of the wrong type is
\* discarded by serve_api_call: nothing is published in reply, no exception
\* leaves the handler into the delivery thread, and later envelopes are
\* still processed.
C11_DecodeFailureDiscarded ==
    lastServe.payload \in {"wrong_type", "missing_key", "not_json"}
    => /\ lastServe.published = NoResponse
       /\ lastServe.raised = "none"
       /\ coord_thread = "idle"
       /\ ENABLED InterpNext

SilentFor(vehicle) ==
    IF vehicle \in DOMAIN last_received_time
    THEN last_received_time[vehicle] ELSE uptime

\* C6: a running non-leader with one tracked neighbour (position 1) that
\* has had no packet from that neighbour for more than 0.5 time units plus
\* one monitor cycle, whether or not it ever had one, is no longer in
\* Cooperative mode, or its monitor has detected the silence and is
\* commanding the switch.
C6_SilenceTriggersDegrade ==
    (alive /\ run /\ position = 1 /\ receiver = "idle"
        /\ SilentFor(leader) > SilenceTicks + BeaconTicks)
    => (~using_cacc \/ monitors[Calling(leader)] > 0)

C19_LeaderNeverDegrades ==
    /\ uptime = 0 => using_cacc
    /\ is_leader =>
          /\ using_cacc
          /\ NumMonitors(monitors) = 0
          /\ last_received_time = <<>>
          /\ last_received_seqn = <<>>
          /\ consecutive_packets = <<>>
          /\ receiver = "idle"

\* C19 witness: a leader that has been running for longer than the silence
\* threshold and a monitor cycle.
C19_Witness ==
    /\ is_leader
    /\ alive
    /\ uptime > SilenceTicks + BeaconTicks

\* the loss_monitor threads of a vehicle, wherever they are
MonitorsOf(vehicle) ==
    CountThreads(monitors, {k \in MonitorPoints : k.vehicle = vehicle})

\* the loss_monitor threads that are in loss_detected, commanding the
\* switch to the autonomous controller
MonitorsCalling ==
    CountThreads(monitors, {k \in MonitorPoints : k.pc = "calling"})

\* C27: the switch to the autonomous controller is commanded once per
\* episode and for the whole vehicle: once the monitor of one link has
\* detected silence and is commanding the switch, no other monitor of the
\* vehicle commands it as well.
C27_DegradeCommandedOnce ==
    MonitorsCalling <= 1

\* C28: when a packet of a tracked neighbour that has been heard before is
\* processed, the vehicle goes on running, the last sequence number of the
\* neighbour becomes a sequence number, and its counter becomes its old
\* value plus one if that number is one more than the last one, and zero
\* otherwise.
C28_CounterUpdate ==
    [][\A source \in Sources :
          (/\ alive
           /\ source \in DOMAIN last_received_seqn
           /\ last_received_time[source] > 0
           /\ last_received_time'[source] = 0)
          => /\ alive'
             /\ last_received_seqn'[source] \in Seqns
             /\ consecutive_packets'[source] =
                   IF last_received_seqn'[source] =
                          last_received_seqn[source] + 1
                   THEN consecutive_packets[source] + 1
                   ELSE 0]_vars

C34_ModeAgreesWithController ==
    (MonitorsCalling = 0 /\ receiver # "api_cacc" /\ commanded # "none")
    => (using_cacc <=> commanded = "CACC")

\* C34 witness: the switch to ACC has been commanded and its call has
\* returned; no other call is in flight, and the mode is Degraded.
C34_Witness ==
    /\ alive
    /\ MonitorsCalling = 0
    /\ receiver = "idle"
    /\ commanded = "ACC"
    /\ ~using_cacc
    /\ NumMonitors(monitors) > 0

\* C35: while the mode is Degraded every packet is processed without error:
\* no step of a Degraded vehicle ends its process.
C35_DegradedReceiveCompletes ==
    [][(alive /\ ~using_cacc) => alive']_vars

(***************************************************************************)
(* Claims about a call from end to end, checked under SpecE2E.             *)
(***************************************************************************)
\* C13: an invocation that has read its result holds exactly the value the
\* interpreter placed in the response field for its call, taken from the
\* response envelope that carries the transaction id of its call envelope.
C13_EndToEnd ==
    \A c \in Callers :
        caller[c].pc \in {"read", "valueDeleted", "returned"}
        => /\ caller[c].ret.value = ResponseField(E2ECall(c))
           /\ caller[c].ret.tid = caller[c].tid
           /\ caller[c].ret.tid = E2ECall(c).transaction_id

\* C13 witness: the read of the vehicle data has returned the interpreter's
\* vehicle data while the other call was answered too.
C13_Witness ==
    /\ caller[1].pc = "returned"
    /\ caller[1].ret.value = "vehicle_data"
    /\ lastServe.call.api_code = "PAR_ACTIVE_CONTROLLER"
    /\ caller[2].pc = "returned"

(***************************************************************************)
(* Claims about the simulation loop, checked under SpecSim.                *)
(***************************************************************************)
\* C16: in every reachable state the free-node set together with the nodes
\* in the range of the lease map is exactly the node inventory the
\* coordinator was created with.
C16_LeaseConservation ==
    available_nodes \cup BidictValues(vehicle_to_node) = Nodes

\* C16 witness: a vehicle has left and its node is free again while another
\* vehicle holds the other node, so nodes have moved both ways.
C16_Witness ==
    /\ sim_pc = "loop"
    /\ \E v \in Entities : DeleteVehicleMsg(v, get_colosseum_node(v)) \in update_msg
    /\ available_nodes # {}
    /\ available_nodes # Nodes
    /\ \E w \in sumo_vehicles : get_colosseum_node(w) \notin available_nodes

\* what is left of a step can be done: a vehicle is processed or the update
\* is published
StepGoesOn ==
    \/ \E v \in Entities : ProcessOldVehicle(v)
    \/ \E v \in Entities : ProcessNewVehicle(v)
    \/ PublishUpdate

\* C18: when a new vehicle is processed in a step while no node is free,
\* the coordinator creates no lease, adds no message to the step's update,
\* subscribes to nothing and creates no application for it, takes only
\* that vehicle off the vehicles to process, and the step remains able to
\* process the remaining vehicles and to publish the update.
C18_NoFreeNodeOnlyReported ==
    /\ [][\A v \in Entities :
            (/\ sim_pc = "step"
             /\ old_vehicles = {}
             /\ v \in new_vehicles
             /\ v \notin new_vehicles'
             /\ available_nodes = {})
            => /\ UNCHANGED <<available_nodes, vehicle_to_node, update_msg,
                             traci_subscribed, applications>>
               /\ new_vehicles' = new_vehicles \ {v}
               /\ sim_pc' = "step"]_vars
    /\ [](sim_pc = "step" => ENABLED StepGoesOn)

\* C18 witness: an update has been published for a step in which one new
\* vehicle was given the last node and announced, and another one got none
\* and is not in the update.
C18_Witness ==
    /\ sim_pc = "loop"
    /\ TimeMsg \in update_msg
    /\ lastOp.op = "assign"
    /\ lastOp.ret = NOT_LEASED
    /\ lastOp.arg \in sumo_vehicles
    /\ \A n \in Nodes \cup {NOT_LEASED} :
          NewVehicleMsg(lastOp.arg, n) \notin update_msg
    /\ \E w \in sumo_vehicles \ {lastOp.arg} :
          NewVehicleMsg(w, get_colosseum_node(w)) \in update_msg

\* C32: a vehicle that got no node is assigned one at a later
\* observation: when the update of a step has been published, a vehicle
\* that is in the simulation and has never had a node is unmanaged only
\* if no node is free (the step has tried to assign it one).
C32_UnmanagedRetried ==
    (sim_pc = "loop" /\ update_msg # {})
    => \A sumo_vehicle \in sumo_vehicles :
          sumo_vehicle \notin BidictKeys(vehicle_to_node)
          => available_nodes = {}

\* C37: once the stop_simulation message has been received, the step loop
\* ends and the cleanup runs, wherever the coordinator is (waiting for the
\* start signal included), unless the loop has ended with an exception.
C37_StopLeadsToCleanup ==
    (stop_simulation /\ sim_pc # "crashed")
        ~> (sim_pc \in {"closed", "crashed"})

\* C38: outside test mode, when the update of a step that announces a new
\* vehicle is published the coordinator is waiting for the start signal,
\* so that it takes no further step until a start_simulation message has
\* been received after that update.
C38_WaitsForStartAfterUpdate ==
    [][(/\ ~test_mode
        /\ sim_pc = "step"
        /\ sim_pc' = "loop"
        /\ \E m \in update_msg' : m.type = "new_vehicle")
       => waiting_for_colosseum']_vars

\* the messages a step adds to the update it is building (the cleanup
\* builds an update of its own)
AddedMessages ==
    IF sim_pc = "cleanup" THEN update_msg' ELSE update_msg' \ update_msg

\* C39: a delete_vehicle message is published for a vehicle once per
\* lease: when a step or the cleanup adds one to an update, the node it
\* names is held, not already back in the free set.
C39_NoDeleteAfterRelease ==
    [][\A m \in AddedMessages :
          m.type = "delete_vehicle" => m.colosseum_id \notin available_nodes]_vars

(***************************************************************************)
(* Claims about beaconing, checked under SpecBeacon.                       *)
(***************************************************************************)
\* C20: whenever the vehicle-data call of the beaconing thread of a running
\* vehicle that is not the last of its formation returns, in Cooperative
\* mode, in Degraded mode or while a controller switch is being commanded,
\* the vehicle goes on running, a beacon with the next beacon id has been
\* sent and the thread sleeps one beacon interval before the next one.
C20_BeaconingContinues ==
    [][(/\ alive
        /\ run
        /\ ~is_last
        /\ beacon_pc = "calling"
        /\ beacon_pc' # "calling")
       => /\ alive'
          /\ beacon_pc' = "sleep"
          /\ beacon_id' = beacon_id + 1]_vars

(***************************************************************************)
(* Claims about the message codec, checked under SpecCodec.                *)
(***************************************************************************)
\* C21: for every message kind, decoding the encoding of a message of that
\* kind with a new object of the same kind succeeds and yields content
\* equal to the encoded fields.
C21_CodecRoundTrip ==
    (/\ codec_ret # "none"
     /\ codec_json = to_json(codec_sent)
     /\ codec_recv.type = codec_sent.type)
    => /\ codec_ret = "True"
       /\ codec_recv.content = codec_sent.content

\* the decode in hand was given a payload of another type, or one that
\* lacks a key required for the kind of the decoding object
RejectablePayload ==
    \/ codec_json.type # codec_recv.type
    \/ \E k \in SeqRange(ContentKeySeq(codec_recv.type)) :
          \A i \in 1..Len(codec_json.content) : codec_json.content[i][1] # k

\* C22: decoding reports failure whenever the type of the payload differs
\* from the expected kind or a key required for the expected kind is
\* absent from its content.
C22_DecodeRejects ==
    (codec_ret # "none" /\ RejectablePayload) => codec_ret = "False"

\* C22 witness: an api_call payload was decoded as vehicle_data and failed.
C22_Witness ==
    /\ codec_json = to_json(codec_sent)
    /\ codec_sent.type = "api_call"
    /\ codec_recv.type = "vehicle_data"
    /\ codec_ret = "False"

\* C23: when from_json reports failure, neither the content nor any field
\* of the decoding object holds anything but what its constructor wrote.
C23_FailedDecodeLeavesObject ==
    codec_ret = "False" => codec_recv = NewMessage(codec_recv.type)

(***************************************************************************)
(* Claims about the receive threads of the test mode, checked under        *)
(* SpecRecv.                                                               *)
(***************************************************************************)
\* receive(source, packet) run from its start to its end with no other
\* thread in between, on the statistics st = [alive, seqn, cons]
SerialReceive(st, source) ==
    IF ~st.alive \/ is_leader \/ source \notin {leader, preceding} THEN st
    ELSE IF source \in DOMAIN st.seqn THEN [st EXCEPT !.alive = FALSE]
    ELSE IF ~using_cacc /\ RecoveryKeyError(DictSet(st.cons, source, 0))
    THEN [alive |-> FALSE,
          seqn |-> DictSet(st.seqn, source, PACKET),
          cons |-> DictSet(st.cons, source, 0)]
    ELSE [alive |-> TRUE,
          seqn |-> DictSet(st.seqn, source, PACKET),
          cons |-> DictSet(st.cons, source, 0)]

\* the envelopes of the threads processed one after the other, in an order
RECURSIVE SerialRun(_, _)
SerialRun(st, order) ==
    IF order = <<>> THEN st
    ELSE SerialRun(SerialReceive(st, recv_task[Head(order)].source),
                   Tail(order))

TaskOrders ==
    {o \in [Tasks -> Tasks] : \A i, j \in Tasks : i # j => o[i] # o[j]}

\* C30: the receive threads of one application serialize their updates of
\* the shared link statistics: when all of them have ended and the
\* application runs, the last sequence numbers and the counters are those
\* that processing the envelopes one after the other, in some order, leaves
\* with the application running.
C30_ReceiveSerialized ==
    (alive /\ \A t \in Tasks : recv_task[t].pc = "done")
    => \E o \in TaskOrders :
          LET st == SerialRun([alive |-> TRUE, seqn |-> <<>>, cons |-> <<>>],
                              o)
          IN /\ st.alive
             /\ st.seqn = last_received_seqn
             /\ st.cons = consecutive_packets

(***************************************************************************)
(* Claims about the registry called from several threads, checked under    *)
(* SpecReg.                                                                *)
(***************************************************************************)
\* C31: the registry operations are safe under concurrent invocation: the
\* free set and the lease map are mutated under one exclusive lock, so in
\* every interleaving of the steps of the operations an assign that found a
\* free node takes one, and no operation fails.
C31_RegistryConcurrentSafe ==
    \A t \in RegThreads : reg_task[t].pc # "raised"
====
